---- MODULE Spec2Model ----
(***************************************************************************)
(* Opshub API: the ticket routes (routes/tickets.js), the organization and *)
(* member routes, the auth routes (routes/auth.js), the auth middleware    *)
(* and the audit sink, as a state machine over the stored tables.  Every   *)
(* handler is one atomic action (requests are executed one after the       *)
(* other); a request is served by a handler action, which leaves the       *)
(* request and its response in req/res, and Respond ends the exchange.     *)
(* Where the interleaving of requests matters, the update and role-change  *)
(* handlers are also modelled await by await (calls, ConcSpec).            *)
(***************************************************************************)
EXTENDS Integers, Sequences, FiniteSets, TLC

VARIABLES
    users,      \* User table: user id -> email, NULL when no such row
    orgs,       \* Organization table: the ids of the stored organizations
    members,    \* OrgMembership table: org id -> user id -> role, NULL when no row
    tickets,    \* Ticket table: the stored rows, by ticket id
    ticketSeq,  \* number of ticket ids handed out so far (ids are never reused)
    now,        \* the clock read by new Date() and by the store's timestamps
    req,        \* the request being served, NoReq between exchanges
    res,        \* the response to req
    audit,      \* the AuditLog rows inserted while serving req
    step,       \* the number of requests the lifecycle scenario's client has sent
    calls,      \* the handlers running concurrently, each at one of its awaits
    passwordHash,   \* User.passwordHash: user id -> bcrypt hash, Nothing when no such row
    refreshTokens,  \* RefreshToken table: the stored rows
    loggedOut       \* history: the refresh tokens whose logout request was answered

\* The column and the table that only the auth routes read or write, and the
\* history of the logouts.
authTables == <<passwordHash, refreshTokens, loggedOut>>

vars == <<users, orgs, members, tickets, ticketSeq, now, req, res, audit, step,
          calls, passwordHash, refreshTokens, loggedOut>>

----------------------------------------------------------------------------
(* Bounds of the model *)

MaxTickets == 1
MaxClock == 2

Procs == {"p1", "p2"}             \* the requests that can be in flight together
UserIds == {"u1", "u2", "u3", "u4"}
OrgIds == {"o1", "o2", "o3"}
Emails == {"a@x", "b@x", "c@x", "d@x"}
Titles == {"t1", "t2"}
Descriptions == {"d1"}
TicketIds == 1..MaxTickets

NULL == "null"                  \* SQL NULL / JavaScript null, for ids and strings
NullTime == 0                   \* SQL NULL in a timestamp column
Nothing == [nothing |-> TRUE]   \* no object: no error thrown, no row found, no details
NoReq == [op |-> "none"]
NoRes == [code |-> "NONE"]
Empty == [k \in {} |-> NULL]    \* the object {}
Idle == [pc |-> "idle"]         \* no handler running

----------------------------------------------------------------------------
(* Enumerations *)

Role == {"OWNER", "ADMIN", "AGENT", "VIEWER"}

TicketStatus ==
    {"OPEN", "PENDING_APPROVAL", "APPROVED", "IN_PROGRESS", "RESOLVED", "CLOSED"}

----------------------------------------------------------------------------
(* Errors and responses *)

AppError(message, status, code, details) ==
    [status |-> status, code |-> code, message |-> message,
     details |-> details, data |-> Nothing]

ValidationError(message, details) == AppError(message, 400, "VALIDATION_ERROR", details)

UnauthorizedError(message) == AppError(message, 401, "UNAUTHORIZED", Nothing)

ForbiddenError(message) == AppError(message, 403, "FORBIDDEN", Nothing)

NotFoundError(message) == AppError(message, 404, "NOT_FOUND", Nothing)

Json(status, data) ==
    [status |-> status, code |-> "OK", message |-> NULL, details |-> Nothing,
     data |-> data]

IsError(r) == r.code # "OK"

Includes(seq, x) == \E i \in 1..Len(seq) : seq[i] = x

----------------------------------------------------------------------------
(* middleware/auth.js *)

\* prisma.orgMembership.findUnique({ where: { userId_organizationId } })
findMembership(userId, organizationId) ==
    IF userId \notin UserIds \/ members[organizationId][userId] = NULL
    THEN Nothing
    ELSE [userId |-> userId, organizationId |-> organizationId,
          role |-> members[organizationId][userId]]

\* lib/auth.js: jwt.sign({ userId }, secret, { expiresIn }) at time iat.  A
\* token can be verified only with the secret it was signed with.
AccessTtl == 1                  \* ACCESS_TOKEN_EXPIRY = '15m', one tick of the clock

generateAccessToken(userId, iat) ==
    [secret |-> "JWT_ACCESS_SECRET", userId |-> userId, exp |-> iat + AccessTtl]

\* Mutant: the expiry of the token is not checked.
verifyAccessTokenNoExpiry(token) ==
    IF token.secret # "JWT_ACCESS_SECRET" THEN [name |-> "JsonWebTokenError"] ELSE Nothing

\* verifyAccessToken = jwt.verify(token, JWT_ACCESS_SECRET): the error
\* thrown, Nothing when the payload is returned.
verifyAccessToken(token) ==
    IF token.secret # "JWT_ACCESS_SECRET" THEN [name |-> "JsonWebTokenError"]
    ELSE IF now >= token.exp THEN [name |-> "TokenExpiredError"]
    ELSE Nothing

\* jwt.sign({ userId }, JWT_REFRESH_SECRET, { expiresIn: '7d' }) at time iat.
RefreshTtl == 672               \* REFRESH_TOKEN_EXPIRY = '7d', in ticks of 15 minutes

generateRefreshToken(userId, iat) ==
    [secret |-> "JWT_REFRESH_SECRET", userId |-> userId, exp |-> iat + RefreshTtl]

\* verifyRefreshToken = jwt.verify(token, JWT_REFRESH_SECRET): the error
\* thrown, Nothing when the payload is returned.
verifyRefreshToken(token) ==
    IF token.secret # "JWT_REFRESH_SECRET" THEN [name |-> "JsonWebTokenError"]
    ELSE IF now >= token.exp THEN [name |-> "TokenExpiredError"]
    ELSE Nothing

\* hashPassword = bcrypt.hash(password, SALT_ROUNDS).  The salt is part of
\* the hash and bcrypt.compare reads it from there, so it is left out.
hashPassword(password) == [bcrypt |-> password]

\* verifyPassword = bcrypt.compare(password, hash).
verifyPassword(password, hash) == hash.bcrypt = password

\* bcrypt.hash draws a new random salt at every call (128 bits): a salt that
\* no stored hash carries.
FreshSalt ==
    CHOOSE n \in 1..(Cardinality(refreshTokens) + 1) :
        \A row \in refreshTokens : row.token.salt # n

\* hashRefreshToken = bcrypt.hash(token, 10): the hash of the token under a
\* salt drawn by this call.  Two hashes of one token are different strings.
hashRefreshToken(token) == [bcrypt |-> token, salt |-> FreshSalt]

\* authenticate, lines 10-19 and 39-41: the Authorization header and the
\* token.  Nothing when the payload is handed to the user lookup.
verifyBearer(authorization) ==
    IF authorization.scheme # "Bearer"
    THEN UnauthorizedError("No token provided")
    ELSE IF verifyAccessToken(authorization.token) # Nothing
    THEN UnauthorizedError("Invalid or expired token")
    ELSE Nothing

\* authenticate: the request carries the user id of a verified token; the
\* user row must exist.  Nothing when the request passes.
authenticate(r) ==
    IF users[r.user] = NULL THEN UnauthorizedError("User not found") ELSE Nothing

\* requireOrg: the authenticated user must hold a membership in :orgId.
requireOrg(r) ==
    IF findMembership(r.user, r.orgId) = Nothing
    THEN ForbiddenError("Access denied to this organization")
    ELSE Nothing

\* Mutant: a request without organization context is passed on.
requireRoleNoContext(membership, allowedRoles) ==
    IF membership = Nothing
    THEN Nothing
    ELSE IF membership.role \notin allowedRoles
    THEN ForbiddenError("Requires one of the allowed roles")
    ELSE Nothing

\* requireRole(allowedRoles): membership is req.orgMembership (Nothing when unset).
requireRole(membership, allowedRoles) ==
    IF membership = Nothing
    THEN ForbiddenError("Organization context required")
    ELSE IF membership.role \notin allowedRoles
    THEN ForbiddenError("Requires one of the allowed roles")
    ELSE Nothing

hasRole(membership, allowedRoles) == membership.role \in allowedRoles

\* Array.isArray(allowedRoles) ? allowedRoles : [allowedRoles].  The argument
\* of the factory is a role or an array of roles.
RoleArray(allowedRoles) ==
    IF allowedRoles.isArray THEN allowedRoles.value ELSE {allowedRoles.value}

\* next() has been called without an error.
Passed == [code |-> "NEXT"]

\* router.use(authenticate) followed by requireOrg: the first error, or Nothing.
OrgGate(r) ==
    IF authenticate(r) # Nothing THEN authenticate(r) ELSE requireOrg(r)

----------------------------------------------------------------------------
(* lib/audit.js *)

AuditRow(organizationId, userId, action, ticketId, metadata) ==
    [organizationId |-> organizationId, userId |-> userId, action |-> action,
     ticketId |-> ticketId, metadata |-> metadata]

\* createAuditLog: the insert either succeeds (sinkOk) or throws, and the
\* catch block swallows the failure: the rows the call leaves behind.
createAuditLog(row, sinkOk) == IF sinkOk THEN <<row>> ELSE <<>>

----------------------------------------------------------------------------
(* routes/tickets.js: the status state machine *)

\* Mutants of the table: IN_PROGRESS may return to OPEN; CLOSED may be
\* reopened; APPROVED may return to OPEN.
transitionRulesBacktrack ==
    [OPEN |-> <<"PENDING_APPROVAL", "IN_PROGRESS", "CLOSED">>,
     PENDING_APPROVAL |-> <<"APPROVED", "REJECTED", "OPEN">>,
     APPROVED |-> <<"IN_PROGRESS", "CLOSED">>,
     IN_PROGRESS |-> <<"RESOLVED", "CLOSED", "OPEN">>,
     RESOLVED |-> <<"CLOSED">>,
     CLOSED |-> <<>>]

transitionRulesReopen ==
    [OPEN |-> <<"PENDING_APPROVAL", "IN_PROGRESS", "CLOSED">>,
     PENDING_APPROVAL |-> <<"APPROVED", "REJECTED", "OPEN">>,
     APPROVED |-> <<"IN_PROGRESS", "CLOSED">>,
     IN_PROGRESS |-> <<"RESOLVED", "CLOSED">>,
     RESOLVED |-> <<"CLOSED">>,
     CLOSED |-> <<"OPEN">>]

transitionRulesApprovedToOpen ==
    [OPEN |-> <<"PENDING_APPROVAL", "IN_PROGRESS", "CLOSED">>,
     PENDING_APPROVAL |-> <<"APPROVED", "REJECTED", "OPEN">>,
     APPROVED |-> <<"IN_PROGRESS", "CLOSED", "OPEN">>,
     IN_PROGRESS |-> <<"RESOLVED", "CLOSED">>,
     RESOLVED |-> <<"CLOSED">>,
     CLOSED |-> <<>>]

\* Mutant: a RESOLVED ticket may return to IN_PROGRESS.
transitionRulesResolvedBack ==
    [OPEN |-> <<"PENDING_APPROVAL", "IN_PROGRESS", "CLOSED">>,
     PENDING_APPROVAL |-> <<"APPROVED", "REJECTED", "OPEN">>,
     APPROVED |-> <<"IN_PROGRESS", "CLOSED">>,
     IN_PROGRESS |-> <<"RESOLVED", "CLOSED">>,
     RESOLVED |-> <<"CLOSED", "IN_PROGRESS">>,
     CLOSED |-> <<>>]

transitionRules ==
    [OPEN |-> <<"PENDING_APPROVAL", "IN_PROGRESS", "CLOSED">>,
     PENDING_APPROVAL |-> <<"APPROVED", "REJECTED", "OPEN">>,
     APPROVED |-> <<"IN_PROGRESS", "CLOSED">>,
     IN_PROGRESS |-> <<"RESOLVED", "CLOSED">>,
     RESOLVED |-> <<"CLOSED">>,
     CLOSED |-> <<>>]

TransitionDetails(currentStatus, newStatus, validTransitions) ==
    [currentStatus |-> currentStatus, newStatus |-> newStatus,
     validTransitions |-> validTransitions]

\* Mutant: the table is consulted before the role.
validateTableFirst(currentStatus, newStatus, userRole) ==
    IF ~Includes(transitionRules[currentStatus], newStatus)
    THEN ValidationError("Cannot transition",
             TransitionDetails(currentStatus, newStatus,
                               transitionRules[currentStatus]))
    ELSE IF userRole = "VIEWER"
    THEN ForbiddenError("Viewers cannot change ticket status")
    ELSE Nothing

\* validateStatusTransition: the error it throws, Nothing when it returns true.
validateStatusTransition(currentStatus, newStatus, userRole) ==
    LET validTransitions ==
            IF currentStatus \in DOMAIN transitionRules
            THEN transitionRules[currentStatus] ELSE <<>>
    IN  IF userRole = "VIEWER"
        THEN ForbiddenError("Viewers cannot change ticket status")
        ELSE IF ~Includes(validTransitions, newStatus)
        THEN ValidationError("Cannot transition",
                 TransitionDetails(currentStatus, newStatus, validTransitions))
        ELSE Nothing

----------------------------------------------------------------------------
(* routes/tickets.js: the handlers *)

Has(body, key) == key \in DOMAIN body

\* if (value): null and the empty string are falsy.
Truthy(value) == value # NULL /\ value # ""

\* Ticket_assigneeId_fkey: the id is that of a stored user.
UserExists(id) == id \in UserIds /\ users[id] # NULL

\* The store refuses a row whose assigneeId references no user; the error
\* reaches errorHandler with the store's code and no status.
ForeignKeyError == AppError("Foreign key constraint failed", 500, "P2003", Nothing)

\* The row's assigneeId violates Ticket_assigneeId_fkey.
DanglingAssignee(assigneeId) == assigneeId # NULL /\ ~UserExists(assigneeId)

\* A rejected request: next(error) reaches errorHandler, nothing is stored.
Reject(error) ==
    /\ res' = error
    /\ audit' = <<>>
    /\ UNCHANGED <<users, orgs, members, tickets, ticketSeq, now>>

\* Mutant: a ticket that requires approval starts in PENDING_APPROVAL.
NewTicketPending(r, id) ==
    [id |-> id,
     title |-> r.body.title,
     description |-> r.body.description,
     organizationId |-> r.orgId,
     creatorId |-> r.user,
     assigneeId |-> IF Has(r.body, "assigneeId") THEN r.body.assigneeId ELSE NULL,
     requiresApproval |->
         IF Has(r.body, "requiresApproval") THEN r.body.requiresApproval ELSE FALSE,
     status |-> IF Has(r.body, "requiresApproval") /\ r.body.requiresApproval
                THEN "PENDING_APPROVAL" ELSE "OPEN",
     approvedById |-> NULL, approvedAt |-> NullTime,
     createdAt |-> now, updatedAt |-> now,
     resolvedAt |-> NullTime, closedAt |-> NullTime]

\* POST /:orgId/tickets: the row tx.ticket.create stores for request r.
NewTicket(r, id) ==
    [id |-> id,
     title |-> r.body.title,
     description |-> r.body.description,
     organizationId |-> r.orgId,
     creatorId |-> r.user,
     assigneeId |-> IF Has(r.body, "assigneeId") THEN r.body.assigneeId ELSE NULL,
     requiresApproval |->
         IF Has(r.body, "requiresApproval") THEN r.body.requiresApproval ELSE FALSE,
     status |-> "OPEN",
     approvedById |-> NULL, approvedAt |-> NullTime,
     createdAt |-> now, updatedAt |-> now,
     resolvedAt |-> NullTime, closedAt |-> NullTime]

\* POST /:orgId/tickets: the error the handler throws, Nothing when it creates.
CreateError(r) ==
    IF OrgGate(r) # Nothing THEN OrgGate(r)
    ELSE IF Has(r.body, "assigneeId") /\ Truthy(r.body.assigneeId)
            /\ findMembership(r.body.assigneeId, r.orgId) = Nothing
    THEN ValidationError("Assignee is not a member of this organization", Nothing)
    ELSE Nothing

CreateTicket(r) ==
    /\ req = NoReq
    /\ r.op = "createTicket"
    /\ req' = r
    /\ UNCHANGED <<step, calls, authTables>>
    /\ IF CreateError(r) # Nothing
       THEN Reject(CreateError(r))
       ELSE IF DanglingAssignee(NewTicket(r, ticketSeq + 1).assigneeId)
       THEN Reject(ForeignKeyError)
       ELSE /\ ticketSeq < MaxTickets
            /\ LET id == ticketSeq + 1
                   ticket == NewTicket(r, id)
               IN  /\ tickets' = (id :> ticket) @@ tickets
                   /\ ticketSeq' = id
                   /\ res' = Json(201, ticket)
                   /\ \E sinkOk \in BOOLEAN :
                        audit' = createAuditLog(
                            AuditRow(r.orgId, r.user, "TICKET_CREATED", id,
                                [title |-> ticket.title,
                                 requiresApproval |-> ticket.requiresApproval,
                                 assigneeId |-> ticket.assigneeId]), sinkOk)
            /\ UNCHANGED <<users, orgs, members, now>>

\* PATCH, lines 274-289: title and description are written when supplied.
TitleUpdate(ticket, body) ==
    (IF Has(body, "title") THEN "title" :> body.title ELSE Empty)
    @@ (IF Has(body, "description") THEN "description" :> body.description ELSE Empty)

TitleMetadata(ticket, body) ==
    (IF Has(body, "title")
     THEN ("oldTitle" :> ticket.title) @@ ("newTitle" :> body.title) ELSE Empty)
    @@ (IF Has(body, "description")
        THEN ("oldDescription" :> ticket.description)
             @@ ("newDescription" :> body.description)
        ELSE Empty)

\* Mutant: the state machine is consulted whenever a status is supplied.
StatusSupplied(ticket, body) == Has(body, "status")

\* PATCH, line 292: the state machine is consulted for this request.
StatusChangeRequested(ticket, body) ==
    Has(body, "status") /\ body.status # ticket.status

\* Mutant: closing a ticket stamps resolvedAt as well.
StatusTimestampsRestamp(ticket, newStatus) ==
    (IF newStatus = "RESOLVED" /\ ticket.resolvedAt = NullTime
     THEN "resolvedAt" :> now ELSE Empty)
    @@ (IF newStatus = "CLOSED"
        THEN ("closedAt" :> now) @@ ("resolvedAt" :> now) ELSE Empty)

\* Mutant: closing a ticket stamps no closedAt.
StatusTimestampsResolvedOnly(ticket, newStatus) ==
    IF newStatus = "RESOLVED" /\ ticket.resolvedAt = NullTime
    THEN "resolvedAt" :> now ELSE Empty

\* PATCH, lines 298-304: the milestone timestamps a status change stamps.
StatusTimestamps(ticket, newStatus) ==
    (IF newStatus = "RESOLVED" /\ ticket.resolvedAt = NullTime
     THEN "resolvedAt" :> now ELSE Empty)
    @@ (IF newStatus = "CLOSED" /\ ticket.closedAt = NullTime
        THEN "closedAt" :> now ELSE Empty)

StatusUpdate(ticket, body) ==
    IF StatusChangeRequested(ticket, body)
    THEN ("status" :> body.status) @@ StatusTimestamps(ticket, body.status)
    ELSE Empty

StatusMetadata(ticket, body) ==
    IF StatusChangeRequested(ticket, body)
    THEN ("oldStatus" :> ticket.status) @@ ("newStatus" :> body.status)
    ELSE Empty

\* PATCH, lines 327-331
AssigneeChanged(ticket, body) ==
    Has(body, "assigneeId") /\ body.assigneeId # ticket.assigneeId

\* PATCH, lines 335-341
ApprovalChanged(ticket, body) ==
    Has(body, "requiresApproval") /\ body.requiresApproval # ticket.requiresApproval

\* PATCH: updateData as the handler has built it at line 343.
UpdateData(ticket, body) ==
    TitleUpdate(ticket, body)
    @@ StatusUpdate(ticket, body)
    @@ (IF AssigneeChanged(ticket, body)
        THEN "assigneeId" :> body.assigneeId ELSE Empty)
    @@ (IF ApprovalChanged(ticket, body)
        THEN "requiresApproval" :> body.requiresApproval ELSE Empty)

\* Mutant: the change of the assignee is left out of the metadata.
MetadataNoAssignee(ticket, body) ==
    TitleMetadata(ticket, body)
    @@ StatusMetadata(ticket, body)
    @@ (IF ApprovalChanged(ticket, body)
        THEN ("oldRequiresApproval" :> ticket.requiresApproval)
             @@ ("newRequiresApproval" :> body.requiresApproval)
        ELSE Empty)

\* PATCH: metadata as the handler has built it at line 343.
Metadata(ticket, body) ==
    TitleMetadata(ticket, body)
    @@ StatusMetadata(ticket, body)
    @@ (IF AssigneeChanged(ticket, body)
        THEN ("oldAssigneeId" :> ticket.assigneeId)
             @@ ("newAssigneeId" :> body.assigneeId)
        ELSE Empty)
    @@ (IF ApprovalChanged(ticket, body)
        THEN ("oldRequiresApproval" :> ticket.requiresApproval)
             @@ ("newRequiresApproval" :> body.requiresApproval)
        ELSE Empty)

\* Mutant: the schema's enum lists REJECTED as well.
PatchSchemaOkRejected(body) ==
    Has(body, "status") => body.status \in TicketStatus \cup {"REJECTED"}

\* PATCH, line 247: the body's status is one of the enum's values.
PatchSchemaOk(body) == Has(body, "status") => body.status \in TicketStatus

\* Mutant: an AGENT may write title and description as well.
PatchChecksAgent(ticket, body, membership, orgId) ==
    IF (Has(body, "title") \/ Has(body, "description"))
       /\ ~hasRole(membership, {"OWNER", "ADMIN", "AGENT"})
    THEN ForbiddenError("Only admins can update ticket title/description")
    ELSE IF StatusChangeRequested(ticket, body)
            /\ validateStatusTransition(ticket.status, body.status, membership.role)
                 # Nothing
    THEN validateStatusTransition(ticket.status, body.status, membership.role)
    ELSE IF Has(body, "assigneeId") /\ Truthy(body.assigneeId)
            /\ findMembership(body.assigneeId, orgId) = Nothing
    THEN ValidationError("Assignee is not a member of this organization", Nothing)
    ELSE Nothing

\* Mutant: a VIEWER may not set the assignee or requiresApproval.
PatchChecksViewerGate(ticket, body, membership, orgId) ==
    IF (Has(body, "title") \/ Has(body, "description"))
       /\ ~hasRole(membership, {"OWNER", "ADMIN"})
    THEN ForbiddenError("Only admins can update ticket title/description")
    ELSE IF StatusChangeRequested(ticket, body)
            /\ validateStatusTransition(ticket.status, body.status, membership.role)
                 # Nothing
    THEN validateStatusTransition(ticket.status, body.status, membership.role)
    ELSE IF (Has(body, "assigneeId") \/ Has(body, "requiresApproval"))
            /\ membership.role = "VIEWER"
    THEN ForbiddenError("Viewers cannot update tickets")
    ELSE IF Has(body, "assigneeId") /\ Truthy(body.assigneeId)
            /\ findMembership(body.assigneeId, orgId) = Nothing
    THEN ValidationError("Assignee is not a member of this organization", Nothing)
    ELSE Nothing

\* Mutant: a ticket that requires approval leaves OPEN only for
\* PENDING_APPROVAL.
PatchChecksApprovalGate(ticket, body, membership, orgId) ==
    IF (Has(body, "title") \/ Has(body, "description"))
       /\ ~hasRole(membership, {"OWNER", "ADMIN"})
    THEN ForbiddenError("Only admins can update ticket title/description")
    ELSE IF StatusChangeRequested(ticket, body)
            /\ validateStatusTransition(ticket.status, body.status, membership.role)
                 # Nothing
    THEN validateStatusTransition(ticket.status, body.status, membership.role)
    ELSE IF StatusChangeRequested(ticket, body) /\ ticket.requiresApproval
            /\ ticket.status = "OPEN" /\ body.status # "PENDING_APPROVAL"
    THEN ValidationError("Ticket requires approval", Nothing)
    ELSE IF Has(body, "assigneeId") /\ Truthy(body.assigneeId)
            /\ findMembership(body.assigneeId, orgId) = Nothing
    THEN ValidationError("Assignee is not a member of this organization", Nothing)
    ELSE Nothing

\* PATCH: the checks of lines 274-325 in the handler's order, on the ticket
\* found: the first error thrown, Nothing when none is.
PatchChecks(ticket, body, membership, orgId) ==
    IF (Has(body, "title") \/ Has(body, "description"))
       /\ ~hasRole(membership, {"OWNER", "ADMIN"})
    THEN ForbiddenError("Only admins can update ticket title/description")
    ELSE IF StatusChangeRequested(ticket, body)
            /\ validateStatusTransition(ticket.status, body.status, membership.role)
                 # Nothing
    THEN validateStatusTransition(ticket.status, body.status, membership.role)
    ELSE IF Has(body, "assigneeId") /\ Truthy(body.assigneeId)
            /\ findMembership(body.assigneeId, orgId) = Nothing
    THEN ValidationError("Assignee is not a member of this organization", Nothing)
    ELSE Nothing

\* Mutant: the ticket found is not compared with the organization addressed.
PatchErrorAnyTenant(r) ==
    IF OrgGate(r) # Nothing THEN OrgGate(r)
    ELSE IF ~PatchSchemaOk(r.body)
    THEN ValidationError("Validation failed", [status |-> "Invalid enum value"])
    ELSE IF r.ticketId \notin DOMAIN tickets
    THEN NotFoundError("Ticket not found")
    ELSE PatchChecks(tickets[r.ticketId], r.body,
                     findMembership(r.user, r.orgId), r.orgId)

\* PATCH /:orgId/tickets/:ticketId: the error the handler throws, Nothing when
\* it answers 200.
PatchError(r) ==
    IF OrgGate(r) # Nothing THEN OrgGate(r)
    ELSE IF ~PatchSchemaOk(r.body)
    THEN ValidationError("Validation failed", [status |-> "Invalid enum value"])
    ELSE IF r.ticketId \notin DOMAIN tickets
    THEN NotFoundError("Ticket not found")
    ELSE IF tickets[r.ticketId].organizationId # r.orgId
    THEN ForbiddenError("Access denied to this ticket")
    ELSE PatchChecks(tickets[r.ticketId], r.body,
                     findMembership(r.user, r.orgId), r.orgId)

\* Mutant: a write of status APPROVED also records an approver.
UpdatedTicketApprover(ticket, updateData) ==
    [f \in DOMAIN ticket |->
        IF f \in DOMAIN updateData THEN updateData[f]
        ELSE IF f = "updatedAt" THEN now
        ELSE IF f = "approvedById" /\ "status" \in DOMAIN updateData
                /\ updateData.status = "APPROVED" THEN ticket.creatorId
        ELSE ticket[f]]

\* tx.ticket.update({ data: updateData }): the row after the write.
UpdatedTicket(ticket, updateData) ==
    [f \in DOMAIN ticket |->
        IF f \in DOMAIN updateData THEN updateData[f]
        ELSE IF f = "updatedAt" THEN now
        ELSE ticket[f]]

\* Mutant: the title and the description are written as soon as their role
\* gate has passed, before the checks of the other fields.
PatchTicketEager(r) ==
    /\ req = NoReq
    /\ r.op = "patchTicket"
    /\ req' = r
    /\ UNCHANGED <<step, calls, authTables>>
    /\ IF PatchError(r) # Nothing
       THEN /\ res' = PatchError(r)
            /\ audit' = <<>>
            /\ tickets' =
                 IF /\ OrgGate(r) = Nothing
                    /\ PatchSchemaOk(r.body)
                    /\ r.ticketId \in DOMAIN tickets
                    /\ tickets[r.ticketId].organizationId = r.orgId
                    /\ hasRole(findMembership(r.user, r.orgId), {"OWNER", "ADMIN"})
                 THEN [tickets EXCEPT ![r.ticketId] =
                         UpdatedTicket(tickets[r.ticketId],
                                       TitleUpdate(tickets[r.ticketId], r.body))]
                 ELSE tickets
            /\ UNCHANGED <<users, orgs, members, ticketSeq, now>>
       ELSE LET ticket == tickets[r.ticketId]
                updateData == UpdateData(ticket, r.body)
                metadata == Metadata(ticket, r.body)
            IN  IF DOMAIN updateData = {}
                THEN /\ res' = Json(200, ticket)
                     /\ audit' = <<>>
                     /\ UNCHANGED <<users, orgs, members, tickets, ticketSeq, now>>
                ELSE IF "assigneeId" \in DOMAIN updateData
                        /\ DanglingAssignee(updateData.assigneeId)
                THEN Reject(ForeignKeyError)
                ELSE /\ tickets' =
                          [tickets EXCEPT ![r.ticketId] = UpdatedTicket(ticket, updateData)]
                     /\ res' = Json(200, tickets'[r.ticketId])
                     /\ \E sinkOk \in BOOLEAN :
                          audit' = createAuditLog(
                              AuditRow(r.orgId, r.user,
                                  IF "oldStatus" \in DOMAIN metadata
                                  THEN "STATUS_CHANGED" ELSE "TICKET_UPDATED",
                                  r.ticketId, metadata), sinkOk)
                     /\ UNCHANGED <<users, orgs, members, ticketSeq, now>>

\* PATCH /:orgId/tickets/:ticketId: every check runs before the one write.
PatchTicket(r) ==
    /\ req = NoReq
    /\ r.op = "patchTicket"
    /\ req' = r
    /\ UNCHANGED <<step, calls, authTables>>
    /\ IF PatchError(r) # Nothing
       THEN Reject(PatchError(r))
       ELSE LET ticket == tickets[r.ticketId]
                updateData == UpdateData(ticket, r.body)
                metadata == Metadata(ticket, r.body)
            IN  IF DOMAIN updateData = {}
                THEN /\ res' = Json(200, ticket)
                     /\ audit' = <<>>
                     /\ UNCHANGED <<users, orgs, members, tickets, ticketSeq, now>>
                ELSE IF "assigneeId" \in DOMAIN updateData
                        /\ DanglingAssignee(updateData.assigneeId)
                THEN Reject(ForeignKeyError)
                ELSE /\ tickets' =
                          [tickets EXCEPT ![r.ticketId] = UpdatedTicket(ticket, updateData)]
                     /\ res' = Json(200, tickets'[r.ticketId])
                     /\ \E sinkOk \in BOOLEAN :
                          audit' = createAuditLog(
                              AuditRow(r.orgId, r.user,
                                  IF "oldStatus" \in DOMAIN metadata
                                  THEN "STATUS_CHANGED" ELSE "TICKET_UPDATED",
                                  r.ticketId, metadata), sinkOk)
                     /\ UNCHANGED <<users, orgs, members, ticketSeq, now>>

\* GET /:orgId/tickets/:ticketId: the error thrown, Nothing when the ticket is
\* returned.
GetError(r) ==
    IF OrgGate(r) # Nothing THEN OrgGate(r)
    ELSE IF r.ticketId \notin DOMAIN tickets
    THEN NotFoundError("Ticket not found")
    ELSE IF tickets[r.ticketId].organizationId # r.orgId
    THEN ForbiddenError("Access denied to this ticket")
    ELSE Nothing

GetTicket(r) ==
    /\ req = NoReq
    /\ r.op = "getTicket"
    /\ req' = r
    /\ UNCHANGED <<step, calls, authTables>>
    /\ IF GetError(r) # Nothing
       THEN Reject(GetError(r))
       ELSE /\ res' = Json(200, tickets[r.ticketId])
            /\ audit' = <<>>
            /\ UNCHANGED <<users, orgs, members, tickets, ticketSeq, now>>

\* Mutant: an AGENT may delete tickets as well.
DeleteErrorAgent(r) ==
    IF OrgGate(r) # Nothing THEN OrgGate(r)
    ELSE IF requireRole(findMembership(r.user, r.orgId),
                        {"OWNER", "ADMIN", "AGENT"}) # Nothing
    THEN requireRole(findMembership(r.user, r.orgId), {"OWNER", "ADMIN", "AGENT"})
    ELSE IF r.ticketId \notin DOMAIN tickets
    THEN NotFoundError("Ticket not found")
    ELSE IF tickets[r.ticketId].organizationId # r.orgId
    THEN ForbiddenError("Access denied to this ticket")
    ELSE Nothing

\* DELETE /:orgId/tickets/:ticketId: the error thrown before the transaction,
\* Nothing when the transaction is started.
DeleteError(r) ==
    IF OrgGate(r) # Nothing THEN OrgGate(r)
    ELSE IF requireRole(findMembership(r.user, r.orgId), {"OWNER", "ADMIN"}) # Nothing
    THEN requireRole(findMembership(r.user, r.orgId), {"OWNER", "ADMIN"})
    ELSE IF r.ticketId \notin DOMAIN tickets
    THEN NotFoundError("Ticket not found")
    ELSE IF tickets[r.ticketId].organizationId # r.orgId
    THEN ForbiddenError("Access denied to this ticket")
    ELSE Nothing

\* The transaction of the delete handler did not commit.
TransactionError == AppError("Transaction already closed", 500, "P2028", Nothing)

\* tickets without the row of ticketId.
WithoutTicket(ticketId) == [t \in DOMAIN tickets \ {ticketId} |-> tickets[t]]

\* The transaction deletes the row and then awaits createAuditLog, which
\* inserts through the client outside the transaction a row that references
\* the ticket being deleted (AuditLog_ticketId_fkey).  The outcomes: the
\* insert fails and the transaction commits; or the insert waits for the
\* row, the transaction expires and is rolled back, and the insert then
\* succeeds or fails.
DeleteTicket(r) ==
    /\ req = NoReq
    /\ r.op = "deleteTicket"
    /\ req' = r
    /\ UNCHANGED <<step, calls, authTables>>
    /\ IF DeleteError(r) # Nothing
       THEN Reject(DeleteError(r))
       ELSE /\ \E committed, sinkOk \in BOOLEAN :
                 /\ committed => ~sinkOk
                 /\ tickets' = IF committed THEN WithoutTicket(r.ticketId) ELSE tickets
                 /\ res' = IF committed
                           THEN Json(200, [message |-> "Ticket deleted"])
                           ELSE TransactionError
                 /\ audit' = createAuditLog(
                        AuditRow(r.orgId, r.user, "TICKET_UPDATED", r.ticketId,
                            [action |-> "deleted",
                             title |-> tickets[r.ticketId].title]), sinkOk)
            /\ UNCHANGED <<users, orgs, members, ticketSeq, now>>

\* z.coerce.number(): Number() of a query-string value, over the values the
\* clients send; NaN (here a value no client's digits denote, which like NaN
\* passes none of the schema's comparisons) for a value that is no number.
NaN == -1
QueryNumber ==
    [v \in {"0", "1", "2", "3", "4", "10", "100", "101", "", "x"} |->
        IF v = "0" \/ v = "" THEN 0
        ELSE IF v = "1" THEN 1 ELSE IF v = "2" THEN 2
        ELSE IF v = "3" THEN 3 ELSE IF v = "4" THEN 4
        ELSE IF v = "10" THEN 10 ELSE IF v = "100" THEN 100
        ELSE IF v = "101" THEN 101 ELSE NaN]

\* page: z.coerce.number().int().positive().default(1)
ParsedPage(query) == IF Has(query, "page") THEN QueryNumber[query.page] ELSE 1

\* limit: z.coerce.number().int().min(1).max(100).default(10)
ParsedLimit(query) == IF Has(query, "limit") THEN QueryNumber[query.limit] ELSE 10

\* GET /:orgId/tickets, lines 51-62: safeParse of the query.
ListSchemaOk(query) ==
    /\ Has(query, "status") => query.status \in TicketStatus
    /\ ParsedPage(query) # NaN /\ ParsedPage(query) > 0
    /\ ParsedLimit(query) # NaN
    /\ ParsedLimit(query) >= 1 /\ ParsedLimit(query) <= 100

\* Lines 67-74: the tickets the where clause selects.
Where(orgId, query) ==
    {t \in DOMAIN tickets :
        /\ tickets[t].organizationId = orgId
        /\ (Has(query, "status") /\ Truthy(query.status))
              => tickets[t].status = query.status
        /\ (Has(query, "assigneeId") /\ Truthy(query.assigneeId))
              => tickets[t].assigneeId = query.assigneeId
        /\ (Has(query, "creatorId") /\ Truthy(query.creatorId))
              => tickets[t].creatorId = query.creatorId}

\* Row a comes before row b under orderBy createdAt desc; the store is free
\* in the order of rows with equal createdAt (tie: by id, up or down).
ComesBefore(a, b, tie) ==
    \/ tickets[a].createdAt > tickets[b].createdAt
    \/ /\ tickets[a].createdAt = tickets[b].createdAt
       /\ IF tie = "up" THEN a < b ELSE a > b

RECURSIVE OrderBy(_, _)
OrderBy(ids, tie) ==
    IF ids = {} THEN <<>>
    ELSE LET first == CHOOSE a \in ids : \A b \in ids \ {a} : ComesBefore(a, b, tie)
         IN  <<first>> \o OrderBy(ids \ {first}, tie)

\* skip and take of findMany.
SkipTake(rows, skip, take) ==
    IF skip >= Len(rows) THEN <<>>
    ELSE SubSeq(rows, skip + 1, IF skip + take < Len(rows) THEN skip + take ELSE Len(rows))

\* Mutant: the number of pages is rounded down.
PagesFloor(total, limit) == total \div limit

\* Math.ceil(total / limit)
Pages(total, limit) == (total + limit - 1) \div limit

\* GET /:orgId/tickets: the error thrown, Nothing when the list is returned.
ListError(r) ==
    IF OrgGate(r) # Nothing THEN OrgGate(r)
    ELSE IF ~ListSchemaOk(r.query)
    THEN ValidationError("Validation failed", [query |-> "Invalid"])
    ELSE Nothing

ListTickets(r) ==
    /\ req = NoReq
    /\ r.op = "listTickets"
    /\ req' = r
    /\ UNCHANGED <<step, calls, authTables>>
    /\ IF ListError(r) # Nothing
       THEN Reject(ListError(r))
       ELSE /\ \E tie \in {"up", "down"} :
                 LET page == ParsedPage(r.query)
                     limit == ParsedLimit(r.query)
                     skip == (page - 1) * limit
                     where == Where(r.orgId, r.query)
                     found == SkipTake(OrderBy(where, tie), skip, limit)
                     total == Cardinality(where)
                 IN  res' = Json(200, [i \in 1..Len(found) |-> tickets[found[i]]])
                            @@ [pagination |->
                                  [page |-> page, limit |-> limit, total |-> total,
                                   pages |-> Pages(total, limit)]]
            /\ audit' = <<>>
            /\ UNCHANGED <<users, orgs, members, tickets, ticketSeq, now>>

\* The middleware requireRole(r.allowedRoles) applied to a request whose
\* organization context is r.orgMembership: it calls next() or next(error).
RequireRole(r) ==
    /\ req = NoReq
    /\ r.op = "requireRole"
    /\ req' = r
    /\ UNCHANGED <<step, calls, authTables>>
    /\ IF requireRole(r.orgMembership, RoleArray(r.allowedRoles)) # Nothing
       THEN Reject(requireRole(r.orgMembership, RoleArray(r.allowedRoles)))
       ELSE /\ res' = Passed
            /\ audit' = <<>>
            /\ UNCHANGED <<users, orgs, members, tickets, ticketSeq, now>>

\* res.json / errorHandler has sent the response: the exchange is over.
Respond ==
    /\ req # NoReq
    /\ req' = NoReq
    /\ res' = NoRes
    /\ audit' = <<>>
    /\ UNCHANGED <<users, orgs, members, tickets, ticketSeq, now, step, calls, authTables>>

\* Time passes between requests.
Tick ==
    /\ req = NoReq
    /\ now < MaxClock
    /\ now' = now + 1
    /\ UNCHANGED <<users, orgs, members, tickets, ticketSeq, req, res, audit, step, calls, authTables>>

----------------------------------------------------------------------------
(* The organization routes *)

OwnerCount(organizationId) ==
    Cardinality({u \in UserIds : members[organizationId][u] = "OWNER"})

\* POST /api/orgs: organization and OWNER membership in one transaction.
CreateOrg(r) ==
    /\ req = NoReq
    /\ r.op = "createOrg"
    /\ req' = r
    /\ UNCHANGED <<step, calls, authTables>>
    /\ IF authenticate(r) # Nothing
       THEN Reject(authenticate(r))
       ELSE /\ orgs # OrgIds
            /\ LET org == CHOOSE o \in OrgIds : o \notin orgs
               IN  /\ orgs' = orgs \cup {org}
                   /\ members' = [members EXCEPT ![org][r.user] = "OWNER"]
                   /\ res' = Json(201, [id |-> org])
                   /\ \E sinkOk \in BOOLEAN :
                        audit' = createAuditLog(
                            AuditRow(org, r.user, "ORG_CREATED", NULL,
                                     [name |-> r.body.name]), sinkOk)
            /\ UNCHANGED <<users, tickets, ticketSeq, now>>

----------------------------------------------------------------------------
(* The auth routes (routes/auth.js) *)

\* authLimiter: express-rate-limit answers a request over the limit of 5 in
\* 15 minutes itself, with status 429 and the message as the body; the
\* handler does not run.  Whether a request is over the limit (r.limited)
\* depends on the client's earlier requests in the window.
TooManyRequests ==
    [status |-> 429, code |-> NULL, message |-> "Too many authentication attempts",
     details |-> Nothing, data |-> Nothing]

Passwords == {"password-1", "password-2", "short", ""}

\* The length of a password, as z.string().min(n) reads it.
PasswordLength(password) ==
    CASE password = "" -> 0
      [] password = "short" -> 5
      [] OTHER -> 10

\* signupSchema: an email, a password of 8 characters, a name, an orgName.
SignupSchemaOk(body) ==
    /\ body.email \in Emails
    /\ PasswordLength(body.password) >= 8
    /\ body.name # ""
    /\ body.orgName # ""

\* loginSchema: an email, a password of one character.
LoginSchemaOk(body) ==
    /\ body.email \in Emails
    /\ PasswordLength(body.password) >= 1

\* prisma.user.findUnique({ where: { email } }): the id of the row, NULL
\* when there is none.
findUserByEmail(email) ==
    IF \E u \in UserIds : users[u] = email
    THEN CHOOSE u \in UserIds : users[u] = email
    ELSE NULL

\* Mutant: the email is not looked up before the user is created.
SignupErrorNoLookup(r) ==
    IF ~SignupSchemaOk(r.body)
    THEN ValidationError("Validation failed", [body |-> "Invalid"])
    ELSE Nothing

\* signup, lines 42-53: the error thrown before anything is written, Nothing
\* when the request passes.
SignupError(r) ==
    IF ~SignupSchemaOk(r.body)
    THEN ValidationError("Validation failed", [body |-> "Invalid"])
    ELSE IF findUserByEmail(r.body.email) # NULL
    THEN ValidationError("Email already registered", Nothing)
    ELSE Nothing

\* The RefreshToken row that signup and login store for a token they issue.
RefreshTokenRow(userId, token) ==
    [userId |-> userId, token |-> hashRefreshToken(token),
     expiresAt |-> now + RefreshTtl]

\* POST /api/auth/signup: user, organization and OWNER membership in one
\* transaction, then the tokens and the stored refresh token.
Signup(r) ==
    /\ req = NoReq
    /\ r.op = "signup"
    /\ req' = r
    /\ UNCHANGED <<step, calls, loggedOut>>
    /\ IF r.limited
       THEN Reject(TooManyRequests) /\ UNCHANGED <<passwordHash, refreshTokens>>
       ELSE IF SignupError(r) # Nothing
       THEN Reject(SignupError(r)) /\ UNCHANGED <<passwordHash, refreshTokens>>
       ELSE /\ orgs # OrgIds
            /\ \E u \in UserIds : users[u] = NULL
            /\ LET user == CHOOSE u \in UserIds : users[u] = NULL
                   org == CHOOSE o \in OrgIds : o \notin orgs
                   accessToken == generateAccessToken(user, now)
                   refreshToken == generateRefreshToken(user, now)
               IN  /\ users' = [users EXCEPT ![user] = r.body.email]
                   /\ passwordHash' =
                        [passwordHash EXCEPT ![user] = hashPassword(r.body.password)]
                   /\ orgs' = orgs \cup {org}
                   /\ members' = [members EXCEPT ![org][user] = "OWNER"]
                   /\ \E sinkOk1, sinkOk2 \in BOOLEAN :
                        audit' =
                            createAuditLog(
                                AuditRow(org, user, "USER_SIGNUP", NULL,
                                         [email |-> r.body.email]), sinkOk1)
                            \o createAuditLog(
                                AuditRow(org, user, "ORG_CREATED", NULL,
                                         [orgName |-> r.body.orgName]), sinkOk2)
                   /\ refreshTokens' =
                        refreshTokens \cup {RefreshTokenRow(user, refreshToken)}
                   /\ res' = Json(201, [user |-> user, organization |-> org,
                                        accessToken |-> accessToken,
                                        refreshToken |-> refreshToken])
            /\ UNCHANGED <<tickets, ticketSeq, now>>

\* Mutant: an unknown email is answered differently from a wrong password.
LoginErrorUserNotFound(r) ==
    IF ~LoginSchemaOk(r.body)
    THEN ValidationError("Validation failed", [body |-> "Invalid"])
    ELSE IF findUserByEmail(r.body.email) = NULL
    THEN UnauthorizedError("User not found")
    ELSE IF ~verifyPassword(r.body.password, passwordHash[findUserByEmail(r.body.email)])
    THEN UnauthorizedError("Invalid credentials")
    ELSE Nothing

\* login, lines 145-172: the error thrown before anything is written, Nothing
\* when the credentials are right.
LoginError(r) ==
    IF ~LoginSchemaOk(r.body)
    THEN ValidationError("Validation failed", [body |-> "Invalid"])
    ELSE IF findUserByEmail(r.body.email) = NULL
    THEN UnauthorizedError("Invalid credentials")
    ELSE IF ~verifyPassword(r.body.password, passwordHash[findUserByEmail(r.body.email)])
    THEN UnauthorizedError("Invalid credentials")
    ELSE Nothing

\* login, lines 189-196: one USER_LOGIN entry for each membership of the user.
RECURSIVE LoginAudit(_, _, _, _)
LoginAudit(organizations, user, email, sinkOk) ==
    IF organizations = {}
    THEN <<>>
    ELSE LET o == CHOOSE x \in organizations : TRUE
         IN  createAuditLog(AuditRow(o, user, "USER_LOGIN", NULL, [email |-> email]),
                            o \in sinkOk)
             \o LoginAudit(organizations \ {o}, user, email, sinkOk)

MaxSessions == 4                \* the stored refresh tokens, at most

\* POST /api/auth/login: the tokens, the stored refresh token and the audit
\* entries.
Login(r) ==
    /\ req = NoReq
    /\ r.op = "login"
    /\ req' = r
    /\ UNCHANGED <<step, calls, passwordHash, loggedOut>>
    /\ UNCHANGED <<users, orgs, members, tickets, ticketSeq, now>>
    /\ IF r.limited
       THEN res' = TooManyRequests /\ audit' = <<>> /\ UNCHANGED refreshTokens
       ELSE IF LoginError(r) # Nothing
       THEN res' = LoginError(r) /\ audit' = <<>> /\ UNCHANGED refreshTokens
       ELSE /\ Cardinality(refreshTokens) < MaxSessions
            /\ LET user == findUserByEmail(r.body.email)
                   accessToken == generateAccessToken(user, now)
                   refreshToken == generateRefreshToken(user, now)
                   memberships == {o \in OrgIds : members[o][user] # NULL}
               IN  /\ refreshTokens' =
                        refreshTokens \cup {RefreshTokenRow(user, refreshToken)}
                   /\ \E sinkOk \in SUBSET memberships :
                        audit' = LoginAudit(memberships, user, r.body.email, sinkOk)
                   /\ res' = Json(200, [user |-> user, accessToken |-> accessToken,
                                        refreshToken |-> refreshToken])

\* prisma.refreshToken.findUnique({ where: { token } }): the row whose token
\* column equals the hash, Nothing when there is none.
findRefreshToken(tokenHash) ==
    IF \E row \in refreshTokens : row.token = tokenHash
    THEN CHOOSE row \in refreshTokens : row.token = tokenHash
    ELSE Nothing

\* Mutant: the token is not looked up in the store.
RefreshErrorNoStore(r) ==
    IF ~Has(r.body, "refreshToken")
    THEN ValidationError("Validation failed", [refreshToken |-> "Required"])
    ELSE IF verifyRefreshToken(r.body.refreshToken) # Nothing
    THEN UnauthorizedError("Invalid refresh token")
    ELSE Nothing

\* refresh, lines 220-243: the error thrown, Nothing when the token passes.
RefreshError(r) ==
    IF ~Has(r.body, "refreshToken")
    THEN ValidationError("Validation failed", [refreshToken |-> "Required"])
    ELSE IF verifyRefreshToken(r.body.refreshToken) # Nothing
    THEN UnauthorizedError("Invalid refresh token")
    ELSE LET storedToken == findRefreshToken(hashRefreshToken(r.body.refreshToken))
         IN  IF storedToken = Nothing THEN UnauthorizedError("Refresh token expired")
             ELSE IF storedToken.expiresAt < now
             THEN UnauthorizedError("Refresh token expired")
             ELSE Nothing

\* POST /api/auth/refresh: a new access token for the user of the token.
Refresh(r) ==
    /\ req = NoReq
    /\ r.op = "refresh"
    /\ req' = r
    /\ UNCHANGED <<step, calls, authTables>>
    /\ IF RefreshError(r) # Nothing
       THEN Reject(RefreshError(r))
       ELSE /\ res' = Json(200, [accessToken |->
                                   generateAccessToken(r.body.refreshToken.userId, now)])
            /\ audit' = <<>>
            /\ UNCHANGED <<users, orgs, members, tickets, ticketSeq, now>>

\* POST /api/auth/logout: the rows whose token column equals the hash are
\* deleted.
Logout(r) ==
    /\ req = NoReq
    /\ r.op = "logout"
    /\ req' = r
    /\ UNCHANGED <<step, calls, passwordHash>>
    /\ UNCHANGED <<users, orgs, members, tickets, ticketSeq, now>>
    /\ IF Has(r.body, "refreshToken")
       THEN /\ refreshTokens' =
                 LET tokenHash == hashRefreshToken(r.body.refreshToken)
                 IN  {row \in refreshTokens : row.token # tokenHash}
            /\ loggedOut' = loggedOut \cup {r.body.refreshToken}
       ELSE UNCHANGED <<refreshTokens, loggedOut>>
    /\ res' = Json(200, [message |-> "Logged out successfully"])
    /\ audit' = <<>>

----------------------------------------------------------------------------
(* The member routes *)

\* Mutant: an ADMIN may change roles as well.
ChangeRoleErrorAdmin(r) ==
    IF OrgGate(r) # Nothing THEN OrgGate(r)
    ELSE IF requireRole(findMembership(r.user, r.orgId), {"OWNER", "ADMIN"}) # Nothing
    THEN requireRole(findMembership(r.user, r.orgId), {"OWNER", "ADMIN"})
    ELSE IF r.body.role \notin Role
    THEN ValidationError("Validation failed", [role |-> "Invalid enum value"])
    ELSE IF findMembership(r.target, r.orgId) = Nothing
    THEN NotFoundError("Membership not found")
    ELSE Nothing

\* PATCH /:orgId/members/:userId: the error thrown, Nothing when the role is set.
ChangeRoleError(r) ==
    IF OrgGate(r) # Nothing THEN OrgGate(r)
    ELSE IF requireRole(findMembership(r.user, r.orgId), {"OWNER"}) # Nothing
    THEN requireRole(findMembership(r.user, r.orgId), {"OWNER"})
    ELSE IF r.body.role \notin Role
    THEN ValidationError("Validation failed", [role |-> "Invalid enum value"])
    ELSE IF findMembership(r.target, r.orgId) = Nothing
    THEN NotFoundError("Membership not found")
    ELSE Nothing

ChangeRole(r) ==
    /\ req = NoReq
    /\ r.op = "changeRole"
    /\ req' = r
    /\ UNCHANGED <<step, calls, authTables>>
    /\ IF ChangeRoleError(r) # Nothing
       THEN Reject(ChangeRoleError(r))
       ELSE /\ members' = [members EXCEPT ![r.orgId][r.target] = r.body.role]
            /\ res' = Json(200, [userId |-> r.target, organizationId |-> r.orgId,
                                 role |-> r.body.role])
            /\ \E sinkOk \in BOOLEAN :
                 audit' = createAuditLog(
                     AuditRow(r.orgId, r.user, "ROLE_CHANGED", NULL,
                         [targetUserId |-> r.target,
                          oldRole |-> members[r.orgId][r.target],
                          newRole |-> r.body.role]), sinkOk)
            /\ UNCHANGED <<users, orgs, tickets, ticketSeq, now>>

\* Mutant: self-removal is refused while there are at most two owners.
OnlyOwnerCheckTwo(r) ==
    IF r.target = r.user /\ OwnerCount(r.orgId) <= 2
    THEN ValidationError("Cannot remove the only owner", Nothing)
    ELSE Nothing

\* DELETE /:orgId/members/:userId, lines 279-291: the only-owner check.
OnlyOwnerCheck(r) ==
    IF r.target = r.user /\ OwnerCount(r.orgId) = 1
    THEN ValidationError("Cannot remove the only owner", Nothing)
    ELSE Nothing

\* Mutant: an AGENT may remove members as well.
RemoveMemberErrorAgent(r) ==
    IF OrgGate(r) # Nothing THEN OrgGate(r)
    ELSE IF requireRole(findMembership(r.user, r.orgId),
                        {"OWNER", "ADMIN", "AGENT"}) # Nothing
    THEN requireRole(findMembership(r.user, r.orgId), {"OWNER", "ADMIN", "AGENT"})
    ELSE IF OnlyOwnerCheck(r) # Nothing
    THEN OnlyOwnerCheck(r)
    ELSE IF findMembership(r.target, r.orgId) = Nothing
    THEN AppError("Record to delete does not exist", 500, "P2025", Nothing)
    ELSE Nothing

\* DELETE /:orgId/members/:userId: the error thrown, Nothing when the row is
\* deleted.  Deleting a row that does not exist makes the store throw.
RemoveMemberError(r) ==
    IF OrgGate(r) # Nothing THEN OrgGate(r)
    ELSE IF requireRole(findMembership(r.user, r.orgId), {"OWNER", "ADMIN"}) # Nothing
    THEN requireRole(findMembership(r.user, r.orgId), {"OWNER", "ADMIN"})
    ELSE IF OnlyOwnerCheck(r) # Nothing
    THEN OnlyOwnerCheck(r)
    ELSE IF findMembership(r.target, r.orgId) = Nothing
    THEN AppError("Record to delete does not exist", 500, "P2025", Nothing)
    ELSE Nothing

RemoveMember(r) ==
    /\ req = NoReq
    /\ r.op = "removeMember"
    /\ req' = r
    /\ UNCHANGED <<step, calls, authTables>>
    /\ IF RemoveMemberError(r) # Nothing
       THEN Reject(RemoveMemberError(r))
       ELSE /\ members' = [members EXCEPT ![r.orgId][r.target] = NULL]
            /\ res' = Json(200, [message |-> "Member removed"])
            /\ \E sinkOk \in BOOLEAN :
                 audit' = createAuditLog(
                     AuditRow(r.orgId, r.user, "MEMBER_REMOVED", NULL,
                              [removedUserId |-> r.target]), sinkOk)
            /\ UNCHANGED <<users, orgs, tickets, ticketSeq, now>>

----------------------------------------------------------------------------
(* The requests the clients send *)

Opt(key, values) == {Empty} \cup {key :> v : v \in values}

MaxPatchFields == 2

CreateBodies ==
    {([title |-> "t1", description |-> "d1"]) @@ a @@ b :
        a \in Opt("assigneeId", {"u2", "u3", ""}),
        b \in Opt("requiresApproval", {TRUE})}

\* The bodies of the update requests: at most MaxPatchFields supplied fields.
PatchBodies ==
    {b \in {t @@ d @@ s @@ a @@ p :
                t \in Opt("title", Titles),
                d \in Opt("description", Descriptions),
                s \in Opt("status", TicketStatus \cup {"REJECTED"}),
                a \in Opt("assigneeId", {NULL, "u2", "u3", ""}),
                p \in Opt("requiresApproval", BOOLEAN)} :
        Cardinality(DOMAIN b) <= MaxPatchFields}

\* The bodies sent by the callers whose requests only probe the tenant
\* boundary.
ProbeBodies ==
    {"status" :> "CLOSED", "title" :> "t2", "assigneeId" :> NULL}

\* (user, organization) pairs: u1 and u2 work in o1, u3 works in o2, and u3
\* and u1 also address the organization they do not belong to.
Members1 == {<<"u1", "o1">>, <<"u2", "o1">>}
Others == {<<"u3", "o2">>, <<"u3", "o1">>, <<"u1", "o2">>}

CreateRequests ==
    {[op |-> "createTicket", user |-> c[1], orgId |-> c[2], body |-> b] :
        c \in Members1 \cup Others, b \in CreateBodies}

\* Reads and deletions: every caller addresses every ticket id.
GetRequests ==
    {[op |-> "getTicket", user |-> c[1], orgId |-> c[2], ticketId |-> t] :
        c \in Members1 \cup Others, t \in TicketIds}

DeleteRequests ==
    {[op |-> "deleteTicket", user |-> c[1], orgId |-> c[2], ticketId |-> t] :
        c \in Members1 \cup Others, t \in TicketIds}

PatchRequests ==
    {[op |-> "patchTicket", user |-> c[1], orgId |-> c[2], ticketId |-> t, body |-> b] :
        c \in Members1, t \in TicketIds, b \in PatchBodies}
    \cup
    {[op |-> "patchTicket", user |-> c[1], orgId |-> c[2], ticketId |-> t, body |-> b] :
        c \in Others, t \in TicketIds, b \in ProbeBodies}

Actors == {"u1", "u2", "u3"}
Tenants == {"o1", "o2"}

MemberRequests ==
    {[op |-> "changeRole", user |-> u, orgId |-> o, target |-> t, body |-> [role |-> x]] :
        u \in Actors, o \in Tenants, t \in Actors, x \in Role}
    \cup {[op |-> "removeMember", user |-> u, orgId |-> o, target |-> t] :
        u \in Actors, o \in Tenants, t \in Actors}
    \cup {[op |-> "createOrg", user |-> u, body |-> [name |-> "n"]] : u \in Actors}
    \cup {[op |-> "signup", limited |-> FALSE,
            body |-> [email |-> e, password |-> "password-1", name |-> "n",
                      orgName |-> "n"]] : e \in Emails}

----------------------------------------------------------------------------
(* The store when the API starts to serve requests: either the empty tables *)
(* of the migration, or tables that hold users, organizations and           *)
(* memberships already: u1 owns o1, u2 is a member of o1 in a lower role,   *)
(* u3 owns o2.  (The routes add no membership for a user other than an      *)
(* organization's creator; the role-change and removal routes address such  *)
(* memberships.)  There are no tickets.                                     *)

SeedMembers(r2) ==
    [o \in OrgIds |-> [u \in UserIds |->
        IF o = "o1" /\ u = "u1" THEN "OWNER"
        ELSE IF o = "o1" /\ u = "u2" THEN r2
        ELSE IF o = "o2" /\ u = "u3" THEN "OWNER"
        ELSE NULL]]

\* The auth tables of a store whose users signed up at time iat with the
\* same password: a password hash and the refresh token of the signup for
\* every user (signup stores one, and no request that succeeds deletes it).
SignupOrder == [u1 |-> 1, u2 |-> 2, u3 |-> 3, u4 |-> 4]

AuthInit(iat) ==
    /\ passwordHash = [u \in UserIds |->
                         IF users[u] # NULL THEN hashPassword("password-1") ELSE Nothing]
    /\ refreshTokens =
         {[userId |-> u,
           token |-> [bcrypt |-> generateRefreshToken(u, iat), salt |-> SignupOrder[u]],
           expiresAt |-> iat + RefreshTtl] : u \in {x \in UserIds : users[x] # NULL}}
    /\ loggedOut = {}

Init ==
    /\ \/ /\ users = [u \in UserIds |-> NULL]
          /\ orgs = {}
          /\ members = [o \in OrgIds |-> [u \in UserIds |-> NULL]]
       \/ /\ users = [u \in UserIds |->
                        IF u = "u1" THEN "a@x" ELSE IF u = "u2" THEN "b@x"
                        ELSE IF u = "u3" THEN "c@x" ELSE NULL]
          /\ orgs = {"o1", "o2"}
          /\ \E r2 \in {"ADMIN", "AGENT", "VIEWER"} : members = SeedMembers(r2)
    /\ tickets = Empty
    /\ ticketSeq = 0
    /\ now = 1
    /\ req = NoReq
    /\ res = NoRes
    /\ audit = <<>>
    /\ step = 0
    /\ calls = [p \in Procs |-> Idle]
    /\ AuthInit(0)

\* The ticket routes, with the memberships as seeded.
TicketNext ==
    \/ \E r \in CreateRequests : CreateTicket(r)
    \/ \E r \in PatchRequests : PatchTicket(r)
    \/ \E r \in GetRequests : GetTicket(r)
    \/ \E r \in DeleteRequests : DeleteTicket(r)
    \/ Respond
    \/ Tick

TicketSpec == Init /\ [][TicketNext]_vars

\* The organization and member routes and signup.
MemberNext ==
    \/ \E r \in MemberRequests : CreateOrg(r)
    \/ \E r \in MemberRequests : Signup(r)
    \/ \E r \in MemberRequests : ChangeRole(r)
    \/ \E r \in MemberRequests : RemoveMember(r)
    \/ Respond

MemberSpec == Init /\ [][MemberNext]_vars

\* A store in which o1 has three members: u1 owns it, u2 and u3 hold any role.
SeedTeam(r2, r3) ==
    [o \in OrgIds |-> [u \in UserIds |->
        IF o = "o1" /\ u = "u1" THEN "OWNER"
        ELSE IF o = "o1" /\ u = "u2" THEN r2
        ELSE IF o = "o1" /\ u = "u3" THEN r3
        ELSE NULL]]

TeamInit ==
    /\ users = [u \in UserIds |->
                  IF u = "u1" THEN "a@x" ELSE IF u = "u2" THEN "b@x"
                  ELSE IF u = "u3" THEN "c@x" ELSE NULL]
    /\ orgs = {"o1"}
    /\ \E r2, r3 \in Role : members = SeedTeam(r2, r3)
    /\ tickets = Empty
    /\ ticketSeq = 0
    /\ now = 1
    /\ req = NoReq
    /\ res = NoRes
    /\ audit = <<>>
    /\ step = 0
    /\ calls = [p \in Procs |-> Idle]
    /\ AuthInit(0)

\* Member removals in the three-member organization; no role changes.
TeamNext ==
    \/ \E r \in MemberRequests : RemoveMember(r)
    \/ Respond

TeamSpec == TeamInit /\ [][TeamNext]_vars

\* Updates that carry an assigneeId and nothing else.
AssignRequests == {r \in PatchRequests : DOMAIN r.body = {"assigneeId"}}

\* Ticket creation, assignment and member removal.
AssignNext ==
    \/ \E r \in CreateRequests : CreateTicket(r)
    \/ \E r \in AssignRequests : PatchTicket(r)
    \/ \E r \in MemberRequests : RemoveMember(r)
    \/ Respond

AssignSpec == Init /\ [][AssignNext]_vars

----------------------------------------------------------------------------
(* Concurrent requests.  Node runs one handler until its next await; at an  *)
(* await another request's handler may run.  calls[p] is the handler of     *)
(* request p between two awaits: the request, what the handler has read,    *)
(* the audit rows it has inserted, whether its primary write is visible to  *)
(* other requests, and at the end its response.                             *)

\* The handler has answered.
Done(r, response, written, rows) ==
    [pc |-> "done", r |-> r, written |-> written, audit |-> rows, res |-> response]

\* PATCH /:orgId/tickets/:ticketId, lines 242-346: the middleware, the schema,
\* findUnique and the checks against the row read.  The handler throws,
\* answers 200 with the row read when there is nothing to write, or goes on
\* to the transaction.
PatchRead(p, r) ==
    /\ calls[p] = Idle
    /\ r.op = "patchTicket"
    /\ calls' = [calls EXCEPT ![p] =
          IF PatchError(r) # Nothing
          THEN Done(r, PatchError(r), FALSE, <<>>)
          ELSE IF DOMAIN UpdateData(tickets[r.ticketId], r.body) = {}
          THEN Done(r, Json(200, tickets[r.ticketId]), FALSE, <<>>)
          ELSE [pc |-> "update", r |-> r, written |-> FALSE, audit |-> <<>>,
                ticket |-> tickets[r.ticketId]]]
    /\ UNCHANGED <<users, orgs, members, tickets, ticketSeq, now, req, res, audit, step, authTables>>

\* Another request's transaction has updated the row and not yet committed.
RowLocked(p, ticketId) ==
    \E q \in Procs \ {p} :
        calls[q].pc \in {"audit", "commit"} /\ calls[q].r.ticketId = ticketId

\* tx.ticket.update, lines 350-352: the statement waits for the row while
\* another transaction holds it; its write stays invisible until the commit.
PatchUpdate(p) ==
    /\ calls[p].pc = "update"
    /\ ~RowLocked(p, calls[p].r.ticketId)
    /\ LET updateData == UpdateData(calls[p].ticket, calls[p].r.body)
       IN  calls' = [calls EXCEPT ![p] =
             IF "assigneeId" \in DOMAIN updateData
                /\ DanglingAssignee(updateData.assigneeId)
             THEN Done(calls[p].r, ForeignKeyError, FALSE, <<>>)
             ELSE [calls[p] EXCEPT !.pc = "audit"]]
    /\ UNCHANGED <<users, orgs, members, tickets, ticketSeq, now, req, res, audit, step, authTables>>

\* createAuditLog, lines 366-378: the insert goes through the client outside
\* the transaction, so its row is visible as soon as it is inserted.
PatchAudit(p) ==
    /\ calls[p].pc = "audit"
    /\ LET metadata == Metadata(calls[p].ticket, calls[p].r.body)
       IN  \E sinkOk \in BOOLEAN :
             calls' = [calls EXCEPT ![p] =
               [calls[p] EXCEPT
                  !.pc = "commit",
                  !.audit = createAuditLog(
                      AuditRow(calls[p].r.orgId, calls[p].r.user,
                          IF "oldStatus" \in DOMAIN metadata
                          THEN "STATUS_CHANGED" ELSE "TICKET_UPDATED",
                          calls[p].r.ticketId, metadata), sinkOk)]]
    /\ UNCHANGED <<users, orgs, members, tickets, ticketSeq, now, req, res, audit, step, authTables>>

\* The transaction commits: updateData, built from the row the handler read,
\* is written over the row as it is stored now; the handler answers 200.
PatchCommit(p) ==
    /\ calls[p].pc = "commit"
    /\ LET ticketId == calls[p].r.ticketId
           updateData == UpdateData(calls[p].ticket, calls[p].r.body)
       IN  /\ tickets' = [tickets EXCEPT
                            ![ticketId] = UpdatedTicket(tickets[ticketId], updateData)]
           /\ calls' = [calls EXCEPT ![p] =
                 Done(calls[p].r, Json(200, tickets'[ticketId]), TRUE, calls[p].audit)]
    /\ UNCHANGED <<users, orgs, members, ticketSeq, now, req, res, audit, step, authTables>>

\* PATCH /:orgId/members/:userId, lines 226-248: the middleware, the schema
\* and findUnique of the target's membership.
ChangeRoleRead(p, r) ==
    /\ calls[p] = Idle
    /\ r.op = "changeRole"
    /\ calls' = [calls EXCEPT ![p] =
          IF ChangeRoleError(r) # Nothing
          THEN Done(r, ChangeRoleError(r), FALSE, <<>>)
          ELSE [pc |-> "roleUpdate", r |-> r, written |-> FALSE, audit |-> <<>>,
                oldRole |-> members[r.orgId][r.target]]]
    /\ UNCHANGED <<users, orgs, members, tickets, ticketSeq, now, req, res, audit, step, authTables>>

\* prisma.orgMembership.update, lines 250-254: a statement of its own, visible
\* at once.
ChangeRoleUpdate(p) ==
    /\ calls[p].pc = "roleUpdate"
    /\ members' = [members EXCEPT
                     ![calls[p].r.orgId][calls[p].r.target] = calls[p].r.body.role]
    /\ calls' = [calls EXCEPT ![p] =
                   [calls[p] EXCEPT !.pc = "roleAudit", !.written = TRUE]]
    /\ UNCHANGED <<users, orgs, tickets, ticketSeq, now, req, res, audit, step, authTables>>

\* createAuditLog and the response, lines 256-267.
ChangeRoleAudit(p) ==
    /\ calls[p].pc = "roleAudit"
    /\ \E sinkOk \in BOOLEAN :
         calls' = [calls EXCEPT ![p] =
           Done(calls[p].r,
                Json(200, [userId |-> calls[p].r.target,
                           organizationId |-> calls[p].r.orgId,
                           role |-> calls[p].r.body.role]),
                TRUE,
                createAuditLog(
                    AuditRow(calls[p].r.orgId, calls[p].r.user, "ROLE_CHANGED", NULL,
                        [targetUserId |-> calls[p].r.target,
                         oldRole |-> calls[p].oldRole,
                         newRole |-> calls[p].r.body.role]), sinkOk))]
    /\ UNCHANGED <<users, orgs, members, tickets, ticketSeq, now, req, res, audit, step, authTables>>

\* The response has been sent.
Retire(p) ==
    /\ calls[p].pc = "done"
    /\ calls' = [calls EXCEPT ![p] = Idle]
    /\ UNCHANGED <<users, orgs, members, tickets, ticketSeq, now, req, res, audit, step, authTables>>

\* The concurrent clients: u1 and u2 ask for a status of ticket 1, and the
\* owner u1 sets a role in o1.
ConcRequests ==
    {[op |-> "patchTicket", user |-> u, orgId |-> "o1", ticketId |-> 1,
      body |-> [status |-> x]] :
          u \in {"u1", "u2"}, x \in {"IN_PROGRESS", "RESOLVED", "CLOSED"}}
    \cup {[op |-> "changeRole", user |-> "u1", orgId |-> "o1", target |-> t,
           body |-> [role |-> x]] : t \in {"u1", "u2"}, x \in {"OWNER", "AGENT"}}

\* The seeded store after u1 has created ticket 1 in o1.
ConcInit ==
    /\ users = [u \in UserIds |->
                  IF u = "u1" THEN "a@x" ELSE IF u = "u2" THEN "b@x"
                  ELSE IF u = "u3" THEN "c@x" ELSE NULL]
    /\ orgs = {"o1", "o2"}
    /\ \E r2 \in {"ADMIN", "AGENT", "VIEWER"} : members = SeedMembers(r2)
    /\ now = 1
    /\ tickets = (1 :> NewTicket([op |-> "createTicket", user |-> "u1", orgId |-> "o1",
                                  body |-> [title |-> "t1", description |-> "d1"]], 1))
    /\ ticketSeq = 1
    /\ req = NoReq
    /\ res = NoRes
    /\ audit = <<>>
    /\ step = 0
    /\ calls = [p \in Procs |-> Idle]
    /\ AuthInit(0)

ConcNext ==
    \/ \E p \in Procs, r \in ConcRequests : PatchRead(p, r)
    \/ \E p \in Procs : PatchUpdate(p)
    \/ \E p \in Procs : PatchAudit(p)
    \/ \E p \in Procs : PatchCommit(p)
    \/ \E p \in Procs, r \in ConcRequests : ChangeRoleRead(p, r)
    \/ \E p \in Procs : ChangeRoleUpdate(p)
    \/ \E p \in Procs : ChangeRoleAudit(p)
    \/ \E p \in Procs : Retire(p)

ConcSpec == ConcInit /\ [][ConcNext]_vars

----------------------------------------------------------------------------
(* Concurrent removals: DELETE /:orgId/members/:userId await by await *)

\* requireOrg and requireRole(['OWNER', 'ADMIN']), line 276: the membership
\* of the caller is read; a caller who removes themself goes on to the count,
\* any other to the delete.
RemoveGate(p, r) ==
    /\ calls[p] = Idle
    /\ r.op = "removeMember"
    /\ LET gate == IF OrgGate(r) # Nothing THEN OrgGate(r)
                   ELSE requireRole(findMembership(r.user, r.orgId), {"OWNER", "ADMIN"})
       IN  calls' = [calls EXCEPT ![p] =
             IF gate # Nothing
             THEN Done(r, gate, FALSE, <<>>)
             ELSE [pc |-> IF r.target = r.user THEN "count" ELSE "delete",
                   r |-> r, written |-> FALSE, audit |-> <<>>]]
    /\ UNCHANGED <<users, orgs, members, tickets, ticketSeq, now, req, res, audit, step, authTables>>

\* prisma.orgMembership.count, lines 280-289: the owners stored at this
\* moment.
RemoveCount(p) ==
    /\ calls[p].pc = "count"
    /\ calls' = [calls EXCEPT ![p] =
          IF OnlyOwnerCheck(calls[p].r) # Nothing
          THEN Done(calls[p].r, OnlyOwnerCheck(calls[p].r), FALSE, <<>>)
          ELSE [calls[p] EXCEPT !.pc = "delete"]]
    /\ UNCHANGED <<users, orgs, members, tickets, ticketSeq, now, req, res, audit, step, authTables>>

\* prisma.orgMembership.delete, lines 292-299: a statement of its own; the
\* store throws when the row is gone.
RemoveDelete(p) ==
    /\ calls[p].pc = "delete"
    /\ LET r == calls[p].r
       IN  IF findMembership(r.target, r.orgId) = Nothing
           THEN /\ calls' = [calls EXCEPT ![p] =
                      Done(r, AppError("Record to delete does not exist", 500, "P2025",
                                       Nothing), FALSE, <<>>)]
                /\ UNCHANGED members
           ELSE /\ members' = [members EXCEPT ![r.orgId][r.target] = NULL]
                /\ calls' = [calls EXCEPT ![p] =
                      [calls[p] EXCEPT !.pc = "removeAudit", !.written = TRUE]]
    /\ UNCHANGED <<users, orgs, tickets, ticketSeq, now, req, res, audit, step, authTables>>

\* createAuditLog and the response, lines 301-308.
RemoveAudit(p) ==
    /\ calls[p].pc = "removeAudit"
    /\ \E sinkOk \in BOOLEAN :
         calls' = [calls EXCEPT ![p] =
           Done(calls[p].r, Json(200, [message |-> "Member removed"]), TRUE,
                createAuditLog(
                    AuditRow(calls[p].r.orgId, calls[p].r.user, "MEMBER_REMOVED", NULL,
                        [removedUserId |-> calls[p].r.target]), sinkOk))]
    /\ UNCHANGED <<users, orgs, members, tickets, ticketSeq, now, req, res, audit, step, authTables>>

\* The members of o1 ask for the removal of their own membership.
SelfRemovals ==
    {[op |-> "removeMember", user |-> u, orgId |-> "o1", target |-> u] :
        u \in {"u1", "u2", "u3"}}

\* Organization o1 with the owners u1 and u2, and u3 in any role.
TwoOwnersInit ==
    /\ TeamInit
    /\ members["o1"]["u2"] = "OWNER"

RemovalNext ==
    \/ \E p \in Procs, r \in SelfRemovals : RemoveGate(p, r)
    \/ \E p \in Procs : RemoveCount(p)
    \/ \E p \in Procs : RemoveDelete(p)
    \/ \E p \in Procs : RemoveAudit(p)
    \/ \E p \in Procs : Retire(p)

RemovalSpec == TwoOwnersInit /\ [][RemovalNext]_vars

----------------------------------------------------------------------------
(* Listing.  The store holds up to MaxListed tickets of o1, created by u1   *)
(* one after the other, two per clock tick, every third of them closed      *)
(* since, and one ticket of o2.                                             *)

MaxListed == 25

ListedTicket(id, orgId, creatorId) ==
    [NewTicket([op |-> "createTicket", user |-> creatorId, orgId |-> orgId,
                body |-> [title |-> "t1", description |-> "d1"]], id)
     EXCEPT !.createdAt = (id + 1) \div 2,
            !.updatedAt = (id + 1) \div 2,
            !.status = IF id % 3 = 0 THEN "CLOSED" ELSE "OPEN",
            !.closedAt = IF id % 3 = 0 THEN (id + 1) \div 2 ELSE NullTime]

ListInit ==
    /\ users = [u \in UserIds |->
                  IF u = "u1" THEN "a@x" ELSE IF u = "u2" THEN "b@x"
                  ELSE IF u = "u3" THEN "c@x" ELSE NULL]
    /\ orgs = {"o1", "o2"}
    /\ members = SeedMembers("AGENT")
    /\ \E n \in 0..MaxListed :
         /\ now = (n + 2) \div 2
         /\ tickets = [id \in 1..(n + 1) |->
                         IF id <= n THEN ListedTicket(id, "o1", "u1")
                         ELSE ListedTicket(id, "o2", "u3")]
         /\ ticketSeq = n + 1
    /\ req = NoReq
    /\ res = NoRes
    /\ audit = <<>>
    /\ step = 0
    /\ calls = [p \in Procs |-> Idle]
    /\ AuthInit(0)

\* The list requests: a member and a non-member of o1, with and without a
\* status filter, and page and limit as query strings.
ListRequests ==
    {[op |-> "listTickets", user |-> u, orgId |-> "o1", query |-> s @@ g @@ l] :
        u \in {"u2", "u3"},
        s \in Opt("status", {"CLOSED"}),
        g \in Opt("page", {"0", "1", "2", "3", "4", "x"}),
        l \in Opt("limit", {"0", "1", "2", "3", "10", "100", "101", "", "x"})}

ListNext ==
    \/ \E r \in ListRequests : ListTickets(r)
    \/ Respond

ListSpec == ListInit /\ [][ListNext]_vars

----------------------------------------------------------------------------
(* The role middleware on its own *)

\* The organization context of a request: none, or a membership row.
Contexts ==
    {Nothing} \cup
    {[userId |-> u, organizationId |-> "o1", role |-> x] :
        u \in {"u1", "u2"}, x \in Role}

\* The arguments of requireRole: one role, or an array of roles.
AllowedArgs ==
    {[isArray |-> FALSE, value |-> x] : x \in Role}
    \cup {[isArray |-> TRUE, value |-> xs] : xs \in SUBSET Role}

RoleRequests ==
    {[op |-> "requireRole", orgMembership |-> m, allowedRoles |-> a] :
        m \in Contexts, a \in AllowedArgs}

RoleNext ==
    \/ \E r \in RoleRequests : RequireRole(r)
    \/ Respond

RoleSpec == Init /\ [][RoleNext]_vars

----------------------------------------------------------------------------
(* The authentication gate *)

\* A request with an Authorization header on a route behind authenticate:
\* the header and the token are checked first, and the route's own action
\* (which begins with the user lookup of authenticate) runs for the user the
\* token names.
Refuse(r, error) ==
    /\ req = NoReq
    /\ req' = r
    /\ UNCHANGED <<step, calls, authTables>>
    /\ Reject(error)

BearerCreateTicket(r) ==
    /\ r.op = "createTicket"
    /\ IF verifyBearer(r.authorization) # Nothing
       THEN Refuse(r, verifyBearer(r.authorization))
       ELSE CreateTicket(r)

BearerGetTicket(r) ==
    /\ r.op = "getTicket"
    /\ IF verifyBearer(r.authorization) # Nothing
       THEN Refuse(r, verifyBearer(r.authorization))
       ELSE GetTicket(r)

BearerCreateOrg(r) ==
    /\ r.op = "createOrg"
    /\ IF verifyBearer(r.authorization) # Nothing
       THEN Refuse(r, verifyBearer(r.authorization))
       ELSE CreateOrg(r)

\* The tokens the clients present: access tokens issued to u1 and to u4 (who
\* has no user row in the seeded store) at any time of the clock, a refresh
\* token, and a token signed with a key of the client's own.
PresentedTokens ==
    {generateAccessToken(u, iat) : u \in {"u1", "u4"}, iat \in 0..MaxClock}
    \cup {[secret |-> "JWT_REFRESH_SECRET", userId |-> "u1", exp |-> MaxClock + 1],
          [secret |-> "forged", userId |-> "u1", exp |-> MaxClock + 1]}

\* The Authorization headers: none, another scheme, Bearer with a token.
Headers ==
    {[scheme |-> "none"], [scheme |-> "Basic"]}
    \cup {[scheme |-> "Bearer", token |-> t] : t \in PresentedTokens}

\* The user id the header's token names (what authenticate looks up).
Named(h) == IF h.scheme = "Bearer" THEN h.token.userId ELSE NULL

BearerRequests ==
    {[op |-> "createTicket", user |-> Named(h), orgId |-> "o1", authorization |-> h,
      body |-> [title |-> "t1", description |-> "d1"]] : h \in Headers}
    \cup {[op |-> "getTicket", user |-> Named(h), orgId |-> "o1", authorization |-> h,
           ticketId |-> 1] : h \in Headers}
    \cup {[op |-> "createOrg", user |-> Named(h), authorization |-> h,
           body |-> [name |-> "n"]] : h \in Headers}

BearerNext ==
    \/ \E r \in BearerRequests : BearerCreateTicket(r)
    \/ \E r \in BearerRequests : BearerGetTicket(r)
    \/ \E r \in BearerRequests : BearerCreateOrg(r)
    \/ Respond
    \/ Tick

BearerSpec == Init /\ [][BearerNext]_vars

----------------------------------------------------------------------------
(* The auth routes on their own *)

\* The times at which the users of the seeded store signed up: seven days
\* ago (their refresh tokens expire now), one tick later, or just now.
SignupTimes == {1 - RefreshTtl, 2 - RefreshTtl, 1}

\* The refresh tokens the clients present: tokens of u1 that signup or login
\* issued or may issue, the token of the next signup, an access token and a
\* token signed with a key of the client's own.
SessionTokens ==
    {generateRefreshToken("u1", iat) : iat \in SignupTimes \cup {2}}
    \cup {generateRefreshToken("u4", 1), generateAccessToken("u1", 1),
          [secret |-> "forged", userId |-> "u1", exp |-> 1 + RefreshTtl]}

TokenBodies == {Empty} \cup {[refreshToken |-> t] : t \in SessionTokens}

SessionRequests ==
    {[op |-> "signup", limited |-> l,
      body |-> [email |-> e, password |-> pw, name |-> "n", orgName |-> "n"]] :
        l \in BOOLEAN, e \in {"a@x", "d@x", "not-an-email"},
        pw \in {"password-1", "short"}}
    \cup {[op |-> "login", limited |-> l, body |-> [email |-> e, password |-> pw]] :
        l \in BOOLEAN, e \in {"a@x", "d@x"}, pw \in {"password-1", "password-2", ""}}
    \cup {[op |-> "refresh", body |-> b] : b \in TokenBodies}
    \cup {[op |-> "logout", body |-> b] : b \in TokenBodies}

SessionInit ==
    /\ users = [u \in UserIds |->
                  IF u = "u1" THEN "a@x" ELSE IF u = "u2" THEN "b@x"
                  ELSE IF u = "u3" THEN "c@x" ELSE NULL]
    /\ orgs = {"o1", "o2"}
    /\ members = SeedMembers("AGENT")
    /\ tickets = Empty
    /\ ticketSeq = 0
    /\ now = 1
    /\ req = NoReq
    /\ res = NoRes
    /\ audit = <<>>
    /\ step = 0
    /\ calls = [p \in Procs |-> Idle]
    /\ \E iat \in SignupTimes : AuthInit(iat)

SessionNext ==
    \/ \E r \in SessionRequests : Signup(r)
    \/ \E r \in SessionRequests : Login(r)
    \/ \E r \in SessionRequests : Refresh(r)
    \/ \E r \in SessionRequests : Logout(r)
    \/ Respond
    \/ Tick

SessionSpec == SessionInit /\ [][SessionNext]_vars

\* The routes together.
Next ==
    \/ \E r \in CreateRequests : CreateTicket(r)
    \/ \E r \in PatchRequests : PatchTicket(r)
    \/ \E r \in GetRequests : GetTicket(r)
    \/ \E r \in ListRequests : ListTickets(r)
    \/ \E r \in DeleteRequests : DeleteTicket(r)
    \/ \E r \in MemberRequests : CreateOrg(r)
    \/ \E r \in MemberRequests : Signup(r)
    \/ \E r \in MemberRequests : ChangeRole(r)
    \/ \E r \in MemberRequests : RemoveMember(r)
    \/ \E r \in SessionRequests : Login(r)
    \/ \E r \in SessionRequests : Refresh(r)
    \/ \E r \in SessionRequests : Logout(r)
    \/ Respond
    \/ Tick

Spec == Init /\ [][Next]_vars

----------------------------------------------------------------------------
(* Properties of the ticket routes, checked under TicketSpec *)

\* The transition table over the declared statuses.
TableEdges ==
    [OPEN |-> {"PENDING_APPROVAL", "IN_PROGRESS", "CLOSED"},
     PENDING_APPROVAL |-> {"APPROVED", "OPEN"},
     APPROVED |-> {"IN_PROGRESS", "CLOSED"},
     IN_PROGRESS |-> {"RESOLVED", "CLOSED"},
     RESOLVED |-> {"CLOSED"},
     CLOSED |-> {}]

RoleOf(r) == members[r.orgId][r.user]

\* Request r is an update by a member of r.orgId of a stored ticket of r.orgId.
Addressed(r) ==
    /\ r.op = "patchTicket"
    /\ users[r.user] # NULL
    /\ RoleOf(r) # NULL
    /\ r.ticketId \in DOMAIN tickets
    /\ tickets[r.ticketId].organizationId = r.orgId

\* The step serves request req', whose body the schema accepts, as an update
\* of a ticket of the caller's tenant.
PatchStep ==
    req = NoReq /\ req' # NoReq /\ Addressed(req') /\ PatchSchemaOk(req'.body)

\* Request r asks for a declared status other than the stored one.
AsksOtherStatus(r) ==
    /\ Has(r.body, "status")
    /\ r.body.status \in TicketStatus
    /\ r.body.status # tickets[r.ticketId].status

\* Request r carries a title or a description its caller may not write.
TitleDenied(r) ==
    (Has(r.body, "title") \/ Has(r.body, "description"))
    /\ RoleOf(r) \notin {"OWNER", "ADMIN"}

\* Request r names an assignee who is no member of the organization.
AssigneeDenied(r) ==
    /\ Has(r.body, "assigneeId")
    /\ r.body.assigneeId \in UserIds
    /\ members[r.orgId][r.body.assigneeId] = NULL

\* Request r names as assignee an id that is neither null nor a user's.
AssigneeUnknown(r) ==
    /\ Has(r.body, "assigneeId")
    /\ r.body.assigneeId \notin UserIds \cup {NULL}

Range(seq) == {seq[i] : i \in 1..Len(seq)}

\* The targets a rejected transition reports: the table's, and for
\* PENDING_APPROVAL also REJECTED, which is not a declared status.
LegalTargets(current) ==
    TableEdges[current]
    \cup (IF current = "PENDING_APPROVAL" THEN {"REJECTED"} ELSE {})

\* C1: for OWNER, ADMIN and AGENT and every pair of distinct declared statuses
\* (current, requested), an update that reaches the state machine changes the
\* status to requested iff (current, requested) is an edge of the table (and no
\* later check of the same request rejects it); for every other pair it is
\* rejected with a ValidationError carrying the current status, the requested
\* status and the current status's legal targets, and the ticket table is
\* unchanged.
C1_TransitionTable ==
    [][(PatchStep /\ RoleOf(req') \in {"OWNER", "ADMIN", "AGENT"}
        /\ AsksOtherStatus(req') /\ ~TitleDenied(req'))
       => LET id == req'.ticketId
              current == tickets[id].status
              requested == req'.body.status
          IN  IF requested \in TableEdges[current]
              THEN /\ (~AssigneeDenied(req') /\ ~AssigneeUnknown(req')) =>
                        /\ res'.code = "OK"
                        /\ tickets'[id].status = requested
                        /\ res'.data.status = requested
                   /\ (AssigneeDenied(req') \/ AssigneeUnknown(req')) =>
                        tickets' = tickets
              ELSE /\ res'.status = 400
                   /\ res'.code = "VALIDATION_ERROR"
                   /\ DOMAIN res'.details =
                        {"currentStatus", "newStatus", "validTransitions"}
                   /\ res'.details.currentStatus = current
                   /\ res'.details.newStatus = requested
                   /\ Range(res'.details.validTransitions) = LegalTargets(current)
                   /\ tickets' = tickets]_vars

\* C1 witness: an ADMIN asked for IN_PROGRESS -> OPEN and got the ValidationError.
C1_Witness ==
    /\ req.op = "patchTicket"
    /\ members[req.orgId][req.user] = "ADMIN"
    /\ res.code = "VALIDATION_ERROR"
    /\ "currentStatus" \in DOMAIN res.details
    /\ res.details.currentStatus = "IN_PROGRESS"
    /\ res.details.newStatus = "OPEN"
    /\ tickets[req.ticketId].status = "IN_PROGRESS"

\* C2: a VIEWER asking for a status other than the stored one is rejected with
\* Forbidden, never with a ValidationError, for every (current, requested)
\* pair, in the table or not, and the ticket table is unchanged.
C2_ViewerForbidden ==
    [][(PatchStep /\ RoleOf(req') = "VIEWER" /\ AsksOtherStatus(req'))
       => /\ res'.status = 403
          /\ res'.code = "FORBIDDEN"
          /\ tickets' = tickets]_vars

\* C2 witness: a VIEWER asked for OPEN -> CLOSED, an edge of the table, with
\* nothing else in the request, and got Forbidden.
C2_Witness ==
    /\ req.op = "patchTicket"
    /\ members[req.orgId][req.user] = "VIEWER"
    /\ DOMAIN req.body = {"status"}
    /\ req.body.status = "CLOSED"
    /\ req.ticketId \in DOMAIN tickets
    /\ tickets[req.ticketId].status = "OPEN"
    /\ res.code = "FORBIDDEN"
    /\ res.message = "Viewers cannot change ticket status"

\* C3: CLOSED is terminal: a stored ticket whose status is CLOSED is CLOSED
\* after every step for as long as it is stored, and every update asking for
\* another status on a CLOSED ticket is rejected.
C3_ClosedTerminal ==
    [][/\ \A t \in DOMAIN tickets \cap DOMAIN tickets' :
            tickets[t].status = "CLOSED" => tickets'[t].status = "CLOSED"
       /\ (PatchStep /\ tickets[req'.ticketId].status = "CLOSED"
           /\ AsksOtherStatus(req'))
          => IsError(res') /\ tickets' = tickets]_vars

\* C3 witness: a non-VIEWER asked to reopen a CLOSED ticket and was rejected.
C3_Witness ==
    /\ req.op = "patchTicket"
    /\ req.ticketId \in DOMAIN tickets
    /\ tickets[req.ticketId].status = "CLOSED"
    /\ Has(req.body, "status")
    /\ req.body.status = "OPEN"
    /\ members[req.orgId][req.user] = "OWNER"
    /\ res.code = "VALIDATION_ERROR"

\* C4: resolvedAt and closedAt are monotonic milestones: each is stamped (with
\* the current time) by the update that enters RESOLVED, resp. CLOSED, while it
\* is null, it changes in no other step, and once non-null it keeps its value.
C4_Milestones ==
    [][\A t \in DOMAIN tickets \cap DOMAIN tickets' :
        LET old == tickets[t]
            new == tickets'[t]
        IN  /\ old.resolvedAt # NullTime => new.resolvedAt = old.resolvedAt
            /\ old.closedAt # NullTime => new.closedAt = old.closedAt
            /\ (old.status # "RESOLVED" /\ new.status = "RESOLVED"
                /\ old.resolvedAt = NullTime) => new.resolvedAt = now
            /\ (old.status # "CLOSED" /\ new.status = "CLOSED"
                /\ old.closedAt = NullTime) => new.closedAt = now
            /\ new.resolvedAt # old.resolvedAt =>
                 old.status # "RESOLVED" /\ new.status = "RESOLVED"
            /\ new.closedAt # old.closedAt =>
                 old.status # "CLOSED" /\ new.status = "CLOSED"]_vars

\* C4 witness: a ticket resolved at time 1 and closed at time 2 has received a
\* further transition request, which was rejected.
C4_Witness ==
    /\ req.op = "patchTicket"
    /\ req.ticketId \in DOMAIN tickets
    /\ tickets[req.ticketId].status = "CLOSED"
    /\ tickets[req.ticketId].resolvedAt = 1
    /\ tickets[req.ticketId].closedAt = 2
    /\ Has(req.body, "status")
    /\ req.body.status = "RESOLVED"
    /\ IsError(res)

\* C5: every ticket is created with status OPEN, whatever requiresApproval and
\* the creator's role are; its creatorId is the acting user and its
\* organizationId the organization of the request.
C5_CreatedOpen ==
    [][\A t \in DOMAIN tickets' \ DOMAIN tickets :
        /\ req'.op = "createTicket"
        /\ tickets'[t].status = "OPEN"
        /\ tickets'[t].creatorId = req'.user
        /\ tickets'[t].organizationId = req'.orgId
        /\ res'.status = 201
        /\ res'.data = tickets'[t]]_vars

\* C5 witness: a VIEWER has created a ticket with requiresApproval = true.
C5_Witness ==
    /\ req.op = "createTicket"
    /\ members[req.orgId][req.user] = "VIEWER"
    /\ Has(req.body, "requiresApproval")
    /\ req.body.requiresApproval
    /\ res.code = "OK"
    /\ tickets[res.data.id].requiresApproval
    /\ tickets[res.data.id].status = "OPEN"

\* C7: an update whose status equals the stored status does not consult the
\* state machine: for every role and every status it is not rejected for a
\* status reason, status, resolvedAt and closedAt keep their values, the audit
\* row carries no old/new status, and the other fields of the request are
\* processed as they are without the status.
C7_SameStatusNoOp ==
    [][(PatchStep /\ Has(req'.body, "status")
        /\ req'.body.status = tickets[req'.ticketId].status)
       => LET id == req'.ticketId
              old == tickets[id]
              new == tickets'[id]
              others == DOMAIN req'.body \ {"status"}
          IN  /\ res'.message \notin
                    {"Viewers cannot change ticket status", "Cannot transition"}
              /\ new.status = old.status
              /\ new.resolvedAt = old.resolvedAt
              /\ new.closedAt = old.closedAt
              /\ \A i \in 1..Len(audit') :
                    /\ audit'[i].action # "STATUS_CHANGED"
                    /\ DOMAIN audit'[i].metadata \cap {"oldStatus", "newStatus"} = {}
              /\ TitleDenied(req') =>
                    res'.message = "Only admins can update ticket title/description"
              /\ (~TitleDenied(req') /\ AssigneeDenied(req')) =>
                    res'.message = "Assignee is not a member of this organization"
              /\ (~TitleDenied(req') /\ AssigneeUnknown(req')) =>
                    res'.message = "Foreign key constraint failed"
              /\ (~TitleDenied(req') /\ ~AssigneeDenied(req')
                  /\ ~AssigneeUnknown(req')) =>
                    /\ res'.code = "OK"
                    /\ \A f \in others : new[f] = req'.body[f]]_vars

\* C7 witness: a VIEWER sent the stored status CLOSED together with a new
\* value of requiresApproval; the request was accepted and the flag written.
C7_Witness ==
    /\ req.op = "patchTicket"
    /\ members[req.orgId][req.user] = "VIEWER"
    /\ DOMAIN req.body = {"status", "requiresApproval"}
    /\ req.body.status = "CLOSED"
    /\ res.code = "OK"
    /\ tickets[req.ticketId].status = "CLOSED"
    /\ tickets[req.ticketId].requiresApproval = req.body.requiresApproval
    /\ Len(audit) = 1
    /\ audit[1].action = "TICKET_UPDATED"
    /\ DOMAIN audit[1].metadata = {"oldRequiresApproval", "newRequiresApproval"}

\* C8: an update whose body, compared field by field with the stored ticket,
\* holds no delta returns the unmodified ticket, writes nothing to the ticket
\* (updatedAt included) and inserts no audit row.
C8_ZeroDeltaNoWrite ==
    [][(PatchStep
        /\ \A f \in DOMAIN req'.body : req'.body[f] = tickets[req'.ticketId][f])
       => /\ res' = Json(200, tickets[req'.ticketId])
          /\ tickets' = tickets
          /\ audit' = <<>>]_vars

\* C12: an update that supplies a title or a description is accepted only
\* from an OWNER or ADMIN; from an AGENT or VIEWER it is rejected with Forbidden
\* and the ticket (title, description and every other field of the request)
\* is unchanged; from an OWNER or ADMIN an update of title and description
\* alone is accepted and stored; no other step changes a title or description.
C12_TitleGate ==
    [][/\ (PatchStep /\ (Has(req'.body, "title") \/ Has(req'.body, "description")))
          => LET id == req'.ticketId
                 admin == RoleOf(req') \in {"OWNER", "ADMIN"}
             IN  /\ ~admin =>
                       /\ res' = ForbiddenError(
                                    "Only admins can update ticket title/description")
                       /\ tickets' = tickets
                 /\ res'.code = "OK" => admin
                 /\ (admin /\ DOMAIN req'.body \subseteq {"title", "description"}) =>
                       /\ res'.code = "OK"
                       /\ \A f \in DOMAIN req'.body : tickets'[id][f] = req'.body[f]
       /\ \A t \in DOMAIN tickets \cap DOMAIN tickets' :
            (tickets'[t].title # tickets[t].title
             \/ tickets'[t].description # tickets[t].description)
            => /\ req'.op = "patchTicket"
               /\ req'.ticketId = t
               /\ RoleOf(req') \in {"OWNER", "ADMIN"}]_vars

\* C12 witness: an AGENT sent a new title together with a legal status
\* change; the request got Forbidden and title and status are as before.
C12_Witness ==
    /\ req.op = "patchTicket"
    /\ members[req.orgId][req.user] = "AGENT"
    /\ DOMAIN req.body = {"title", "status"}
    /\ req.body.title = "t2"
    /\ req.body.status = "IN_PROGRESS"
    /\ res.code = "FORBIDDEN"
    /\ res.message = "Only admins can update ticket title/description"
    /\ tickets[req.ticketId].title = "t1"
    /\ tickets[req.ticketId].status = "OPEN"

\* C14: a ticket is deleted only by a request of an OWNER or ADMIN of the
\* ticket's organization: a delete request from an AGENT or VIEWER is rejected
\* with Forbidden by the role check, whether or not the id names a stored
\* ticket, and the tickets are as before; and a ticket leaves the table only
\* in a step that serves a delete request for it by an OWNER or ADMIN of its
\* organization.
C14_DeleteByAdmins ==
    [][/\ (req = NoReq /\ req'.op = "deleteTicket" /\ users[req'.user] # NULL
           /\ RoleOf(req') \in {"AGENT", "VIEWER"})
          => /\ res' = ForbiddenError("Requires one of the allowed roles")
             /\ tickets' = tickets
       /\ \A t \in DOMAIN tickets \ DOMAIN tickets' :
            /\ req'.op = "deleteTicket"
            /\ req'.ticketId = t
            /\ req'.orgId = tickets[t].organizationId
            /\ members[tickets[t].organizationId][req'.user] \in {"OWNER", "ADMIN"}]_vars

\* C14 witness: an AGENT asked to delete a stored ticket of its organization,
\* got Forbidden, and the ticket is still stored.
C14_Witness ==
    /\ req.op = "deleteTicket"
    /\ members[req.orgId][req.user] = "AGENT"
    /\ req.ticketId \in DOMAIN tickets
    /\ tickets[req.ticketId].organizationId = req.orgId
    /\ res.code = "FORBIDDEN"

\* Request r asks for a status change that the state machine refuses.
StatusDenied(r) ==
    /\ AsksOtherStatus(r)
    /\ \/ RoleOf(r) = "VIEWER"
       \/ r.body.status \notin TableEdges[tickets[r.ticketId].status]

\* The id names no member of organization o.
NotMember(o, id) == id \notin UserIds \/ members[o][id] = NULL

\* The step serves request req' of a member of req'.orgId with operation op.
MemberStep(op) ==
    /\ req = NoReq
    /\ req'.op = op
    /\ users[req'.user] # NULL
    /\ RoleOf(req') # NULL

\* The outcome C16 states for an assigneeId a sent to organization o with
\* ticket id: a non-member is refused with a ValidationError and nothing is
\* stored; a member is accepted and stored.
AssigneeOutcome(o, a, id) ==
    IF NotMember(o, a)
    THEN /\ res'.status = 400
         /\ res'.code = "VALIDATION_ERROR"
         /\ tickets' = tickets
    ELSE /\ res'.code = "OK"
         /\ tickets'[id].assigneeId = a
         /\ res'.data.assigneeId = a

\* C16: creating or updating a ticket with a non-null assigneeId that has no
\* membership in the organization is rejected with a ValidationError and the
\* ticket is not created / not changed; a member's id is accepted, stored and
\* returned by the reads that follow; null on update is accepted and
\* unassigns the ticket.  (Updates are taken with no earlier check of the
\* handler rejecting them.)
C16_AssigneeIsMember ==
    [][/\ (MemberStep("createTicket") /\ Has(req'.body, "assigneeId"))
          => AssigneeOutcome(req'.orgId, req'.body.assigneeId, ticketSeq')
       /\ (PatchStep /\ Has(req'.body, "assigneeId")
           /\ ~TitleDenied(req') /\ ~StatusDenied(req'))
          => IF req'.body.assigneeId = NULL
             THEN /\ res'.code = "OK"
                  /\ tickets'[req'.ticketId].assigneeId = NULL
             ELSE AssigneeOutcome(req'.orgId, req'.body.assigneeId, req'.ticketId)
       /\ (MemberStep("getTicket") /\ res'.code = "OK")
          => res'.data = tickets[req'.ticketId]]_vars

\* What the handler of request r answers when r.ticketId matches no ticket.
AbsentOutcome(r) ==
    IF r.op = "deleteTicket" /\ RoleOf(r) \notin {"OWNER", "ADMIN"}
    THEN ForbiddenError("Requires one of the allowed roles")
    ELSE NotFoundError("Ticket not found")

\* Request r of a member of r.orgId names a ticket of another organization.
ForeignTicket(r) ==
    /\ users[r.user] # NULL
    /\ RoleOf(r) # NULL
    /\ r.ticketId \in DOMAIN tickets
    /\ tickets[r.ticketId].organizationId # r.orgId

\* C18: a get, update or delete request of a member of organization A,
\* addressed to A with the id of a ticket of another organization, has the
\* outcome of the same request with an id that matches no ticket (NotFound).
C18_ForeignAsAbsent ==
    [][(req = NoReq
        /\ req'.op \in {"getTicket", "patchTicket", "deleteTicket"}
        /\ ForeignTicket(req'))
       => res' = AbsentOutcome(req')]_vars

\* The caller of the request served by this step held, when it was served, a
\* membership in organization o, and the request was addressed to o.
ServedForMemberOf(o) ==
    /\ req = NoReq
    /\ req'.orgId = o
    /\ users[req'.user] # NULL
    /\ members[o][req'.user] # NULL

\* C19: tenant isolation.  A ticket is created, modified, deleted or returned
\* only in a step that serves a request addressed to the ticket's
\* organization by a user who holds a membership in it; a request of a user
\* to an organization in which the user holds no membership is answered
\* Forbidden by requireOrg, whatever it asks for; and a request addressed to
\* an organization other than the ticket's own is rejected and changes nothing.
C19_TenantIsolation ==
    [][/\ \A t \in DOMAIN tickets' \ DOMAIN tickets :
            ServedForMemberOf(tickets'[t].organizationId)
       /\ \A t \in DOMAIN tickets \ DOMAIN tickets' :
            ServedForMemberOf(tickets[t].organizationId) /\ req'.ticketId = t
       /\ \A t \in DOMAIN tickets \cap DOMAIN tickets' :
            tickets'[t] # tickets[t]
            => ServedForMemberOf(tickets[t].organizationId) /\ req'.ticketId = t
       /\ (req = NoReq /\ req'.op \in {"createTicket", "patchTicket", "getTicket"}
           /\ res'.code = "OK")
          => /\ ServedForMemberOf(res'.data.organizationId)
             /\ res'.data = tickets'[res'.data.id]
       /\ (req = NoReq /\ req' # NoReq /\ users[req'.user] # NULL
           /\ members[req'.orgId][req'.user] = NULL)
          => /\ res' = ForbiddenError("Access denied to this organization")
             /\ tickets' = tickets
       /\ (req = NoReq /\ req'.op \in {"patchTicket", "getTicket", "deleteTicket"}
           /\ req'.ticketId \in DOMAIN tickets
           /\ tickets[req'.ticketId].organizationId # req'.orgId)
          => /\ IsError(res')
             /\ tickets' = tickets]_vars

\* C19 witness: u1, a member of o1 only, addressed its own organization with
\* the id of a ticket of o2; the request was rejected and the ticket is as
\* it was created.
C19_Witness ==
    /\ req.op = "patchTicket"
    /\ req.user = "u1" /\ req.orgId = "o1"
    /\ Has(req.body, "status") /\ req.body.status = "CLOSED"
    /\ req.ticketId \in DOMAIN tickets
    /\ tickets[req.ticketId].organizationId = "o2"
    /\ tickets[req.ticketId].status = "OPEN"
    /\ tickets[req.ticketId].updatedAt = tickets[req.ticketId].createdAt
    /\ IsError(res)

\* This step serves an update of ticket t whose body supplies field f.
UpdateSupplies(t, f) ==
    /\ req = NoReq
    /\ req'.op = "patchTicket"
    /\ req'.ticketId = t
    /\ Has(req'.body, f)

\* C20: the frame of a ticket update.  As long as a ticket is stored, no step
\* changes its id, organizationId, creatorId, approvedById, approvedAt or
\* createdAt; title, description, status, assigneeId and requiresApproval
\* change only in a step that serves an update of that ticket whose body
\* supplies the field, and to the value supplied; resolvedAt and closedAt
\* change only together with a supplied status that differs from the stored
\* one, resolvedAt on RESOLVED and closedAt on CLOSED.  (updatedAt is kept by
\* the store and refreshed by each write.)
C20_UpdateFrame ==
    [][\A t \in DOMAIN tickets \cap DOMAIN tickets' :
         /\ \A f \in {"id", "organizationId", "creatorId", "approvedById",
                      "approvedAt", "createdAt"} :
               tickets'[t][f] = tickets[t][f]
         /\ \A f \in {"title", "description", "status", "assigneeId",
                      "requiresApproval"} :
               tickets'[t][f] # tickets[t][f]
               => UpdateSupplies(t, f) /\ tickets'[t][f] = req'.body[f]
         /\ tickets'[t].resolvedAt # tickets[t].resolvedAt
            => /\ UpdateSupplies(t, "status")
               /\ tickets[t].status # "RESOLVED"
               /\ tickets'[t].status = "RESOLVED"
         /\ tickets'[t].closedAt # tickets[t].closedAt
            => /\ UpdateSupplies(t, "status")
               /\ tickets[t].status # "CLOSED"
               /\ tickets'[t].status = "CLOSED"]_vars

\* C20 witness: an update has moved a ticket to APPROVED and written the
\* status alone: the ticket still has no approver and no approval time.
C20_Witness ==
    /\ req.op = "patchTicket"
    /\ res.code = "OK"
    /\ Has(req.body, "status") /\ req.body.status = "APPROVED"
    /\ tickets[req.ticketId].status = "APPROVED"
    /\ tickets[req.ticketId].approvedById = NULL
    /\ tickets[req.ticketId].approvedAt = NullTime
    /\ tickets[req.ticketId].organizationId = req.orgId

\* The handler of request r passes its own checks and reaches its write, so
\* that it goes on to call createAuditLog.
ReachesAudit(r) ==
    IF r.op = "createTicket"
    THEN CreateError(r) = Nothing
         /\ ~DanglingAssignee(NewTicket(r, ticketSeq + 1).assigneeId)
    ELSE IF r.op = "patchTicket"
    THEN PatchError(r) = Nothing
         /\ DOMAIN UpdateData(tickets[r.ticketId], r.body) # {}
         /\ ~(Has(r.body, "assigneeId") /\ DanglingAssignee(r.body.assigneeId))
    ELSE IF r.op = "deleteTicket" THEN DeleteError(r) = Nothing
    ELSE IF r.op = "changeRole" THEN ChangeRoleError(r) = Nothing
    ELSE IF r.op = "removeMember" THEN RemoveMemberError(r) = Nothing
    ELSE IF r.op = "createOrg" THEN authenticate(r) = Nothing
    ELSE FALSE

\* The primary write of request r is in the store after the step.
PrimaryCommitted(r) ==
    IF r.op = "createTicket"
    THEN ticketSeq' = ticketSeq + 1
         /\ ticketSeq' \in DOMAIN tickets'
         /\ tickets'[ticketSeq'] = NewTicket(r, ticketSeq')
    ELSE IF r.op = "patchTicket"
    THEN tickets'[r.ticketId] =
             UpdatedTicket(tickets[r.ticketId], UpdateData(tickets[r.ticketId], r.body))
    ELSE IF r.op = "deleteTicket" THEN r.ticketId \notin DOMAIN tickets'
    ELSE IF r.op = "changeRole" THEN members'[r.orgId][r.target] = r.body.role
    ELSE IF r.op = "removeMember" THEN members'[r.orgId][r.target] = NULL
    ELSE orgs' # orgs /\ \E o \in orgs' \ orgs : members'[o][r.user] = "OWNER"

\* C21: a failure of the audit write never fails or rolls back the primary
\* operation.  Whenever a ticket create, update or delete, a role change, a
\* member removal or an organization creation reaches its write and no audit
\* row is recorded, the response is a success and the primary write is in
\* the store.
C21_AuditFailureHarmless ==
    [][(req = NoReq /\ req' # NoReq /\ ReachesAudit(req') /\ audit' = <<>>)
       => ~IsError(res') /\ PrimaryCommitted(req')]_vars

\* C23: every stored ticket's status is one of the six declared statuses at
\* all times; REJECTED, which the transition table lists as a target of
\* PENDING_APPROVAL, is never stored, and an update by a member of the
\* organization that asks for REJECTED is answered with a validation error
\* (400) and changes nothing.
C23_DeclaredStatuses ==
    /\ [](\A t \in DOMAIN tickets : tickets[t].status \in TicketStatus)
    /\ [][(req = NoReq /\ req'.op = "patchTicket"
           /\ OrgGate(req') = Nothing
           /\ Has(req'.body, "status") /\ req'.body.status = "REJECTED")
          => /\ res'.status = 400 /\ res'.code = "VALIDATION_ERROR"
             /\ tickets' = tickets]_vars

\* C23 witness: a member asked to move a ticket that is PENDING_APPROVAL to
\* REJECTED and was refused with a validation error.
C23_Witness ==
    /\ req.op = "patchTicket"
    /\ Has(req.body, "status") /\ req.body.status = "REJECTED"
    /\ req.ticketId \in DOMAIN tickets
    /\ tickets[req.ticketId].organizationId = req.orgId
    /\ tickets[req.ticketId].status = "PENDING_APPROVAL"
    /\ res.code = "VALIDATION_ERROR"

\* The metadata m holds the pair old/new with the values a and b.
HoldsPair(m, old, new, a, b) ==
    /\ old \in DOMAIN m /\ m[old] = a
    /\ new \in DOMAIN m /\ m[new] = b

\* The names of the pair that records a change of field f.
PairOf ==
    [title |-> <<"oldTitle", "newTitle">>,
     description |-> <<"oldDescription", "newDescription">>,
     status |-> <<"oldStatus", "newStatus">>,
     assigneeId |-> <<"oldAssigneeId", "newAssigneeId">>,
     requiresApproval |-> <<"oldRequiresApproval", "newRequiresApproval">>]

C33_DeletionAudited ==
    [][(req = NoReq /\ req' # NoReq /\ req'.op = "deleteTicket" /\ ~IsError(res'))
       => \E i \in 1..Len(audit') :
            /\ audit'[i].action = "TICKET_UPDATED"
            /\ audit'[i].ticketId = req'.ticketId
            /\ audit'[i].metadata.action = "deleted"
            /\ audit'[i].metadata.title = tickets[req'.ticketId].title]_vars

\* C35: a ticket update is all-or-nothing.  When a request is rejected by
\* any check, none of its fields is applied: the stored tickets are the ones
\* before the request, and no audit entry is written.
C35_AllOrNothing ==
    [][(req = NoReq /\ req' # NoReq /\ req'.op = "patchTicket" /\ IsError(res'))
       => /\ tickets' = tickets
          /\ audit' = <<>>]_vars

\* C35 witness: an OWNER or ADMIN has asked for a new title together with a
\* status the table does not allow; the request is rejected and the title is
\* the one stored before.
C35_Witness ==
    /\ req.op = "patchTicket"
    /\ req.ticketId \in DOMAIN tickets
    /\ res.code = "VALIDATION_ERROR"
    /\ Cardinality(DOMAIN req.body) >= 2
    /\ Has(req.body, "title") /\ Has(req.body, "status")
    /\ req.body.status \in TicketStatus
    /\ users[req.user] # NULL
    /\ members[req.orgId][req.user] \in {"OWNER", "ADMIN"}
    /\ tickets[req.ticketId].title # req.body.title

\* The timestamps of a stored ticket agree with its status.
TimestampsAgree(ticket) ==
    /\ ticket.status = "RESOLVED" => ticket.resolvedAt # NullTime
    /\ ticket.status = "CLOSED" => ticket.closedAt # NullTime
    /\ ticket.closedAt # NullTime => ticket.status = "CLOSED"
    /\ ticket.resolvedAt # NullTime => ticket.status \in {"RESOLVED", "CLOSED"}

\* C36: in every state reachable by requests executed one after the other,
\* a ticket's timestamps agree with its status: RESOLVED implies resolvedAt
\* set, CLOSED implies closedAt set, closedAt is set only if the status is
\* CLOSED, resolvedAt only if it is RESOLVED or CLOSED; and a ticket that is
\* closed from a status other than RESOLVED keeps its null resolvedAt.
C36_TimestampsAgree ==
    /\ [](\A t \in DOMAIN tickets : TimestampsAgree(tickets[t]))
    /\ [][\A t \in DOMAIN tickets \cap DOMAIN tickets' :
            (tickets[t].status # "RESOLVED" /\ tickets'[t].status = "CLOSED")
            => tickets'[t].resolvedAt = tickets[t].resolvedAt]_vars

\* C36 witness: a ticket has been resolved and then closed; both timestamps
\* are set.
C36_Witness ==
    \E t \in DOMAIN tickets :
        /\ tickets[t].status = "CLOSED"
        /\ tickets[t].resolvedAt # NullTime
        /\ tickets[t].closedAt # NullTime
        /\ tickets[t].closedAt >= tickets[t].resolvedAt

\* How far a status is along the lifecycle; OPEN and PENDING_APPROVAL, the
\* two statuses of the approval loop, are equally far.
Progress ==
    [OPEN |-> 0, PENDING_APPROVAL |-> 0, APPROVED |-> 1, IN_PROGRESS |-> 2,
     RESOLVED |-> 3, CLOSED |-> 4]

\* C37: the status progresses monotonically except for the loop between OPEN
\* and PENDING_APPROVAL.  Every change of a stored status either stays within
\* {OPEN, PENDING_APPROVAL} or moves strictly forward along the lifecycle:
\* a status that has left {OPEN, PENDING_APPROVAL} never returns to it, each
\* of APPROVED, IN_PROGRESS and RESOLVED is entered at most once, and no
\* cycle other than OPEN -> PENDING_APPROVAL -> OPEN exists.
C37_Monotonic ==
    [][\A t \in DOMAIN tickets \cap DOMAIN tickets' :
         LET old == tickets[t].status
             new == tickets'[t].status
         IN  new # old
             => \/ {old, new} = {"OPEN", "PENDING_APPROVAL"}
                \/ Progress[new] > Progress[old]]_vars

\* C37 witness: a RESOLVED ticket has been asked to return to IN_PROGRESS or
\* to OPEN, and the request was rejected.
C37_Witness ==
    /\ req.op = "patchTicket"
    /\ req.ticketId \in DOMAIN tickets
    /\ tickets[req.ticketId].status = "RESOLVED"
    /\ Has(req.body, "status")
    /\ req.body.status \in {"IN_PROGRESS", "OPEN"}
    /\ users[req.user] # NULL
    /\ members[req.orgId][req.user] \in {"OWNER", "ADMIN", "AGENT"}
    /\ res.code = "VALIDATION_ERROR"

\* C38: an update that carries only assigneeId and/or requiresApproval is
\* accepted for every role of the acting member, VIEWER and AGENT included,
\* when the assignee asked for is null or a member of the organization: the
\* stored ticket then has the values asked for.
C38_NoRoleGateOnAssignee ==
    [][(/\ PatchStep
        /\ DOMAIN req'.body # {}
        /\ DOMAIN req'.body \subseteq {"assigneeId", "requiresApproval"}
        /\ users[req'.user] # NULL
        /\ members[req'.orgId][req'.user] \in Role
        /\ Has(req'.body, "assigneeId")
             => \/ req'.body.assigneeId = NULL
                \/ /\ req'.body.assigneeId \in UserIds
                   /\ members[req'.orgId][req'.body.assigneeId] # NULL)
       => /\ res'.code = "OK"
          /\ \A f \in DOMAIN req'.body : tickets'[req'.ticketId][f] = req'.body[f]]_vars

\* C38 witness: a VIEWER has reassigned a ticket.
C38_Witness ==
    /\ req.op = "patchTicket"
    /\ users[req.user] # NULL
    /\ members[req.orgId][req.user] = "VIEWER"
    /\ DOMAIN req.body = {"assigneeId"}
    /\ res.code = "OK"
    /\ Len(audit) = 1
    /\ audit[1].metadata.oldAssigneeId # audit[1].metadata.newAssigneeId
    /\ tickets[req.ticketId].assigneeId = req.body.assigneeId

\* The ticket that differs from ticket only in requiresApproval.
Twin(ticket) == [ticket EXCEPT !.requiresApproval = ~ticket.requiresApproval]

\* C39: the value of requiresApproval never influences the state machine.
\* The outcome of a status update request is determined by the stored
\* status, the status asked for and the caller's role alone: it is accepted
\* when the status asked for is the stored one or, for a caller other than a
\* VIEWER, a target of the stored one in the table, and rejected otherwise;
\* and the checks and the status written are the same for the ticket that
\* differs only in requiresApproval.
C39_ApprovalFlagIgnored ==
    [][(PatchStep /\ DOMAIN req'.body = {"status"})
       => LET t == req'.ticketId
              old == tickets[t].status
              asked == req'.body.status
              accepted == \/ asked = old
                          \/ RoleOf(req') # "VIEWER" /\ asked \in TableEdges[old]
          IN  /\ (res'.code = "OK") <=> accepted
              /\ tickets'[t].status = IF accepted THEN asked ELSE old
              /\ tickets'[t].requiresApproval = tickets[t].requiresApproval
              /\ PatchChecks(Twin(tickets[t]), req'.body,
                             findMembership(req'.user, req'.orgId), req'.orgId)
                   = IF IsError(res') THEN res' ELSE Nothing
              /\ StatusUpdate(Twin(tickets[t]), req'.body)
                   = StatusUpdate(tickets[t], req'.body)]_vars

\* C39 witness: a ticket with requiresApproval = true has gone from OPEN
\* directly to IN_PROGRESS or CLOSED.
C39_Witness ==
    /\ req.op = "patchTicket"
    /\ DOMAIN req.body = {"status"}
    /\ res.code = "OK"
    /\ tickets[req.ticketId].requiresApproval
    /\ tickets[req.ticketId].status \in {"IN_PROGRESS", "CLOSED"}
    /\ Len(audit) = 1
    /\ audit[1].metadata.oldStatus = "OPEN"

----------------------------------------------------------------------------
(* The end-to-end lifecycle: one client creates a ticket with                *)
(* requiresApproval = true and then sends one status request after another;  *)
(* step counts the requests answered so far.                                 *)

MaxAttempts == 2

ScenarioStatus == <<"PENDING_APPROVAL", "APPROVED", "OPEN", "CLOSED">>

LastStep == Len(ScenarioStatus) + MaxAttempts

\* Request r is the one the scenario sends at this step: its client is a
\* member of the organization, and not a VIEWER when it asks for a status.
Scripted(r) ==
    /\ <<r.user, r.orgId>> \in Members1
    /\ users[r.user] # NULL
    /\ members[r.orgId][r.user] # NULL
    /\ IF step = 0
       THEN /\ r.op = "createTicket"
            /\ Has(r.body, "requiresApproval") /\ r.body.requiresApproval
            /\ Has(r.body, "assigneeId") => r.body.assigneeId = "u2"
       ELSE /\ step <= LastStep
            /\ r.op = "patchTicket"
            /\ members[r.orgId][r.user] # "VIEWER"
            /\ r.ticketId = ticketSeq
            /\ DOMAIN r.body = {"status"}
            /\ step <= Len(ScenarioStatus) => r.body.status = ScenarioStatus[step]

ScenarioCreate(r) == Scripted(r) /\ CreateTicket(r)

ScenarioPatch(r) == Scripted(r) /\ PatchTicket(r)

\* The client has read the response and moves on to its next request.
ScenarioAdvance ==
    /\ req # NoReq
    /\ req' = NoReq
    /\ res' = NoRes
    /\ audit' = <<>>
    /\ step' = step + 1
    /\ UNCHANGED <<users, orgs, members, tickets, ticketSeq, now, calls, authTables>>

LifecycleNext ==
    \/ \E r \in CreateRequests : ScenarioCreate(r)
    \/ \E r \in PatchRequests : ScenarioPatch(r)
    \/ ScenarioAdvance
    \/ Tick

LifecycleSpec == Init /\ [][LifecycleNext]_vars

\* The request of the scenario's step k succeeds and stores status s.
StepSucceeds(k, s) ==
    (req = NoReq /\ step = k /\ req' # NoReq)
    => /\ res'.code = "OK"
       /\ tickets'[ticketSeq'].status = s

\* After the CLOSED request every request for another status fails.
FurtherAttemptsFail ==
    (req = NoReq /\ step > Len(ScenarioStatus) /\ req' # NoReq
     /\ req'.body.status # tickets[req'.ticketId].status)
    => IsError(res') /\ tickets' = tickets

\* C6 as stated: the ticket is created OPEN, the requests to PENDING_APPROVAL,
\* APPROVED, OPEN and CLOSED each succeed in that order, and every further
\* transition attempt fails.
C6_LifecycleAsStated ==
    [][/\ StepSucceeds(0, "OPEN")
       /\ StepSucceeds(1, "PENDING_APPROVAL")
       /\ StepSucceeds(2, "APPROVED")
       /\ StepSucceeds(3, "OPEN")
       /\ StepSucceeds(4, "CLOSED")
       /\ FurtherAttemptsFail]_vars

\* C6, amended: the ticket is created OPEN, the requests to PENDING_APPROVAL
\* and APPROVED succeed, the request to OPEN is rejected with a ValidationError
\* naming IN_PROGRESS and CLOSED as the legal targets and the status stays
\* APPROVED, the request to CLOSED then succeeds, and every further transition
\* attempt fails.
C6_Lifecycle ==
    [][/\ StepSucceeds(0, "OPEN")
       /\ StepSucceeds(1, "PENDING_APPROVAL")
       /\ StepSucceeds(2, "APPROVED")
       /\ (req = NoReq /\ step = 3 /\ req' # NoReq)
          => /\ res'.code = "VALIDATION_ERROR"
             /\ res'.details.currentStatus = "APPROVED"
             /\ res'.details.newStatus = "OPEN"
             /\ Range(res'.details.validTransitions) = {"IN_PROGRESS", "CLOSED"}
             /\ tickets' = tickets
             /\ tickets[ticketSeq].status = "APPROVED"
       /\ StepSucceeds(4, "CLOSED")
       /\ FurtherAttemptsFail]_vars

\* C6 witness: the scenario has run to its end: the ticket, created with
\* requiresApproval = true, is CLOSED and the last further attempt, a request
\* to reopen it, was rejected.
C6_Witness ==
    /\ step = LastStep
    /\ req.op = "patchTicket"
    /\ req.body.status = "OPEN"
    /\ res.code = "VALIDATION_ERROR"
    /\ tickets[req.ticketId].requiresApproval
    /\ tickets[req.ticketId].status = "CLOSED"

----------------------------------------------------------------------------
(* Properties of the member routes, checked under MemberSpec *)

\* C9: a removal whose target is the organization's only OWNER membership is
\* rejected and the membership kept, whoever the requester is.
C9_SoleOwnerKept ==
    [][(req = NoReq /\ req'.op = "removeMember"
        /\ members[req'.orgId][req'.target] = "OWNER"
        /\ OwnerCount(req'.orgId) = 1)
       => IsError(res') /\ members' = members]_vars

\* C10: every stored organization has at least one OWNER membership.
C10_OwnerExists == \A o \in orgs : OwnerCount(o) >= 1

\* C13: only an OWNER changes a member's role: a role-change request from an
\* ADMIN, AGENT or VIEWER is rejected with Forbidden and no membership changes;
\* a request from an OWNER for an existing target membership sets exactly that
\* membership's role to the requested role; and no step changes the role of a
\* membership unless it serves a role-change request of an OWNER.
C13_OwnerChangesRoles ==
    [][/\ (req = NoReq /\ req'.op = "changeRole" /\ users[req'.user] # NULL)
          => LET o == req'.orgId
                 role == members[o][req'.user]
             IN  /\ role \in {"ADMIN", "AGENT", "VIEWER"} =>
                       /\ res'.status = 403
                       /\ res'.code = "FORBIDDEN"
                       /\ members' = members
                 /\ (role = "OWNER" /\ members[o][req'.target] # NULL) =>
                       /\ res'.code = "OK"
                       /\ members' =
                            [members EXCEPT ![o][req'.target] = req'.body.role]
       /\ \A o \in OrgIds, u \in UserIds :
            (members[o][u] # NULL /\ members'[o][u] # NULL
             /\ members'[o][u] # members[o][u])
            => /\ req'.op = "changeRole"
               /\ req'.orgId = o /\ req'.target = u
               /\ members[o][req'.user] = "OWNER"]_vars

\* C13 witness: the ADMIN u2 asked to become OWNER of o1 and got Forbidden.
C13_Witness ==
    /\ req.op = "changeRole"
    /\ req.user = "u2" /\ req.orgId = "o1" /\ req.target = "u2"
    /\ req.body.role = "OWNER"
    /\ members["o1"]["u2"] = "ADMIN"
    /\ res.code = "FORBIDDEN"

\* C15: a membership is removed only by a request of an OWNER or ADMIN of the
\* organization: a removal request from an AGENT or VIEWER is rejected with
\* Forbidden and the memberships are as before; and a membership leaves the
\* table only in a step that serves a removal request for it by an OWNER or
\* ADMIN of its organization.
C15_RemoveByAdmins ==
    [][/\ (req = NoReq /\ req'.op = "removeMember" /\ users[req'.user] # NULL
           /\ members[req'.orgId][req'.user] \in {"AGENT", "VIEWER"})
          => /\ res' = ForbiddenError("Requires one of the allowed roles")
             /\ members' = members
       /\ \A o \in OrgIds, u \in UserIds :
            (members[o][u] # NULL /\ members'[o][u] = NULL)
            => /\ req'.op = "removeMember"
               /\ req'.orgId = o /\ req'.target = u
               /\ members[o][req'.user] \in {"OWNER", "ADMIN"}]_vars

\* C15 witness: the AGENT u2 asked to remove u1 from o1 and got Forbidden;
\* u1 is still a member.
C15_Witness ==
    /\ req.op = "removeMember"
    /\ req.user = "u2" /\ req.orgId = "o1" /\ req.target = "u1"
    /\ members["o1"]["u2"] = "AGENT"
    /\ members["o1"]["u1"] # NULL
    /\ res.code = "FORBIDDEN"

----------------------------------------------------------------------------
(* Removal with two owners, checked under TeamSpec *)

\* C11: when an organization has exactly two OWNER memberships, a removal
\* request by an OWNER or ADMIN member that targets one of the two owners
\* (the requester's own membership included) succeeds, deletes exactly that
\* membership and leaves the organization with exactly one OWNER.
C11_OneOfTwoOwners ==
    [][(req = NoReq /\ req'.op = "removeMember"
        /\ users[req'.user] # NULL
        /\ members[req'.orgId][req'.user] \in {"OWNER", "ADMIN"}
        /\ OwnerCount(req'.orgId) = 2
        /\ members[req'.orgId][req'.target] = "OWNER")
       => /\ res' = Json(200, [message |-> "Member removed"])
          /\ members' = [members EXCEPT ![req'.orgId][req'.target] = NULL]
          /\ Cardinality({u \in UserIds : members'[req'.orgId][u] = "OWNER"}) = 1]_vars

\* C11 witness: u1 and u2 were the two owners of o1 (no role changes under
\* TeamSpec, and u1 starts as OWNER); the ADMIN u3 has removed u1.
C11_Witness ==
    /\ req.op = "removeMember"
    /\ req.user = "u3" /\ req.orgId = "o1" /\ req.target = "u1"
    /\ members["o1"]["u3"] = "ADMIN"
    /\ members["o1"]["u2"] = "OWNER"
    /\ members["o1"]["u1"] = NULL
    /\ res.code = "OK"

----------------------------------------------------------------------------
(* Assignees and memberships, checked under AssignSpec *)

\* C17: every stored ticket's assigneeId is null or the id of a user who
\* holds a membership in the ticket's organization.
C17_AssigneeHoldsMembership ==
    \A t \in DOMAIN tickets :
        \/ tickets[t].assigneeId = NULL
        \/ ~NotMember(tickets[t].organizationId, tickets[t].assigneeId)

----------------------------------------------------------------------------
(* The authentication gate, checked under BearerSpec *)

\* The header carries no access token that verifies now for a stored user.
Unauthenticated(h) ==
    \/ h.scheme # "Bearer"
    \/ h.token.secret # "JWT_ACCESS_SECRET"
    \/ now >= h.token.exp
    \/ users[h.token.userId] = NULL

\* C26: a request to a route behind authenticate with no Authorization
\* header, a header of another scheme, a token that does not verify or is
\* expired, or a valid token naming no stored user is answered Unauthorized
\* (401), writes no audit row and changes nothing in the store; a request
\* with an access token issued to a stored user, not expired, is not answered
\* Unauthorized and is served as that user: the ticket it creates has that
\* user as creator, the organization it creates has that user as OWNER.
C26_AuthenticationGate ==
    [][(req = NoReq /\ req' # NoReq)
       => LET h == req'.authorization
          IN  IF Unauthenticated(h)
              THEN /\ res'.status = 401
                   /\ res'.code = "UNAUTHORIZED"
                   /\ audit' = <<>>
                   /\ UNCHANGED <<users, orgs, members, tickets, ticketSeq>>
              ELSE /\ res'.code # "UNAUTHORIZED"
                   /\ (req'.op = "createTicket" /\ res'.code = "OK")
                        => tickets'[ticketSeq'].creatorId = h.token.userId
                   /\ (req'.op = "createOrg")
                        => \E o \in orgs' \ orgs :
                             /\ members'[o][h.token.userId] = "OWNER"
                             /\ \A u \in UserIds \ {h.token.userId} :
                                   members'[o][u] = NULL]_vars

\* C26 witness: an access token issued to the stored user u1 was presented
\* after its expiry and the request was answered Unauthorized.
C26_Witness ==
    /\ req # NoReq
    /\ req.authorization.scheme = "Bearer"
    /\ req.authorization.token.secret = "JWT_ACCESS_SECRET"
    /\ users[req.authorization.token.userId] # NULL
    /\ now >= req.authorization.token.exp
    /\ res = UnauthorizedError("Invalid or expired token")

----------------------------------------------------------------------------
(* The role middleware, checked under RoleSpec *)

\* C25: requireRole(allowed), with allowed one role or a list of roles, calls
\* next() without an error iff the request carries a membership whose role
\* is one of the allowed roles; when the membership is missing or its role
\* is not allowed it calls next with a ForbiddenError (403) and does not
\* pass the request on; it changes nothing in the store.
C25_RequireRole ==
    [][(req = NoReq /\ req'.op = "requireRole")
       => LET m == req'.orgMembership
              a == req'.allowedRoles
              allowed == IF a.isArray THEN m # Nothing /\ m.role \in a.value
                         ELSE m # Nothing /\ m.role = a.value
          IN  /\ allowed <=> res' = Passed
              /\ ~allowed => /\ res'.status = 403
                             /\ res'.code = "FORBIDDEN"
                             /\ res'.message # NULL
              /\ UNCHANGED <<users, orgs, members, tickets>>]_vars

\* C25 witness: requireRole('ADMIN') met a VIEWER's membership and passed a
\* ForbiddenError.
C25_Witness ==
    /\ req.op = "requireRole"
    /\ ~req.allowedRoles.isArray
    /\ req.allowedRoles.value = "ADMIN"
    /\ req.orgMembership # Nothing
    /\ req.orgMembership.role = "VIEWER"
    /\ res.code = "FORBIDDEN"

----------------------------------------------------------------------------
(* Listing, checked under ListSpec *)

\* The numbers a list request asks for, as the claim names them.
AskedPage(r) == IF Has(r.query, "page") THEN QueryNumber[r.query.page] ELSE 1
AskedLimit(r) == IF Has(r.query, "limit") THEN QueryNumber[r.query.limit] ELSE 10

\* The stored tickets of the organization that pass the request's filter.
Matching(r) ==
    {t \in DOMAIN tickets :
        /\ tickets[t].organizationId = r.orgId
        /\ Has(r.query, "status") => tickets[t].status = r.query.status}

Smaller(a, b) == IF a < b THEN a ELSE b

\* rows is a run of n matching tickets in creation-time-descending order that
\* follows exactly skip of the matching tickets: every matching ticket left
\* out is no older than the newest row or no newer than the oldest, and the
\* number of those that must come first is at most skip, with the tickets as
\* old as every row making up the rest.
IsPage(rows, matching, skip) ==
    LET ids == {rows[i].id : i \in 1..Len(rows)}
        out == matching \ ids
        newest == rows[1].createdAt
        oldest == rows[Len(rows)].createdAt
        first == {t \in out : tickets[t].createdAt > oldest}
        free == {t \in out : tickets[t].createdAt = oldest
                               /\ tickets[t].createdAt = newest}
    IN  /\ ids \subseteq matching
        /\ Cardinality(ids) = Len(rows)
        /\ \A i \in 1..Len(rows) : rows[i] = tickets[rows[i].id]
        /\ \A i, j \in 1..Len(rows) :
              i < j => rows[i].createdAt >= rows[j].createdAt
        /\ Len(rows) > 0 =>
              /\ \A t \in out : \/ tickets[t].createdAt >= newest
                                 \/ tickets[t].createdAt <= oldest
              /\ Cardinality(first) <= skip
              /\ skip <= Cardinality(first) + Cardinality(free)

\* C24: a list request of a member with page p >= 1 and limit L in 1..100
\* (defaults 1 and 10) against N matching tickets returns
\* min(L, max(0, N - (p-1)*L)) rows, which follow the first (p-1)*L matching
\* tickets in creation-time-descending order, and reports total = N and
\* pages = ceil(N / L); a limit above 100 or below 1 is answered with a
\* validation error and no tickets; the store is unchanged.
C24_Pagination ==
    [][(req = NoReq /\ req'.op = "listTickets" /\ OrgGate(req') = Nothing)
       => LET p == AskedPage(req')
              L == AskedLimit(req')
              N == Cardinality(Matching(req'))
          IN  /\ tickets' = tickets
              /\ (L # NaN /\ (L > 100 \/ L < 1)) =>
                    /\ res'.status = 400 /\ res'.code = "VALIDATION_ERROR"
                    /\ res'.data = Nothing
              /\ (L # NaN /\ L >= 1 /\ L <= 100 /\ p # NaN /\ p >= 1) =>
                    /\ res'.code = "OK"
                    /\ Len(res'.data) =
                         Smaller(L, IF N - (p - 1) * L > 0 THEN N - (p - 1) * L ELSE 0)
                    /\ IsPage(res'.data, Matching(req'), (p - 1) * L)
                    /\ res'.pagination.total = N
                    /\ res'.pagination.pages * L >= N
                    /\ (res'.pagination.pages - 1) * L < N
                    /\ res'.pagination.pages >= 0]_vars

\* C24 witness: page 1 with limit 10 against 25 matching tickets returned 10
\* rows and 3 pages.
C24_Witness ==
    /\ req.op = "listTickets"
    /\ Has(req.query, "page") /\ req.query.page = "1"
    /\ Has(req.query, "limit") /\ req.query.limit = "10"
    /\ Cardinality(Matching(req)) = 25
    /\ res.code = "OK"
    /\ Len(res.data) = 10
    /\ res.pagination.pages = 3
    /\ res.pagination.total = 25

----------------------------------------------------------------------------
(* Concurrent requests, checked under ConcSpec *)

\* C22: each multi-step write is one atomic unit.  At no moment at which
\* another request can run is the primary write of an update or a role
\* change visible in the store while its audit row is not, or its audit row
\* visible while the primary write is not.
C22_WriteAndAuditAtomic ==
    \A p \in Procs :
        calls[p] # Idle => (calls[p].written <=> calls[p].audit # <<>>)

\* C30: under every interleaving of concurrent updates of one ticket, every
\* change of the ticket's stored status is an edge of the transition table;
\* in particular a stored CLOSED is never replaced.
C30_ConcurrentEdges ==
    [][\A t \in DOMAIN tickets \cap DOMAIN tickets' :
         tickets'[t].status # tickets[t].status
         => tickets'[t].status \in TableEdges[tickets[t].status]]_vars

----------------------------------------------------------------------------
(* Properties of the auth routes, checked under SessionSpec *)

\* A request to op that the rate limiter lets through has just been served.
AuthStep(op) == req = NoReq /\ req' # NoReq /\ req'.op = op /\ ~req'.limited

\* The stored rows that hold a hash of the token.
StoredFor(token) == {row \in refreshTokens : row.token.bcrypt = token}

\* C27: a signup whose email already belongs to a stored user is rejected
\* with a VALIDATION_ERROR outcome and creates no user, organization,
\* membership or refresh token; a (valid) signup with a new email creates
\* exactly one user, one organization and one OWNER membership binding them.
C27_Signup ==
    [][AuthStep("signup")
       => LET email == req'.body.email
          IN  /\ (\E u \in UserIds : users[u] = email)
                   => /\ res'.status = 400
                      /\ res'.code = "VALIDATION_ERROR"
                      /\ UNCHANGED <<users, passwordHash, orgs, members, refreshTokens>>
              /\ (SignupSchemaOk(req'.body) /\ ~\E u \in UserIds : users[u] = email)
                   => /\ res'.code = "OK"
                      /\ \E u \in UserIds, o \in OrgIds :
                           /\ users[u] = NULL
                           /\ users' = [users EXCEPT ![u] = email]
                           /\ o \notin orgs
                           /\ orgs' = orgs \cup {o}
                           /\ members' = [members EXCEPT ![o][u] = "OWNER"]]_vars

\* C27 witness: an earlier signup created the user of d@x with an
\* organization of which that user is the only member, as OWNER, and a second
\* signup with d@x has been rejected.
C27_Witness ==
    /\ req # NoReq
    /\ req.op = "signup"
    /\ ~req.limited
    /\ req.body.email = "d@x"
    /\ res.code = "VALIDATION_ERROR"
    /\ res.message = "Email already registered"
    /\ users["u4"] = "d@x"
    /\ members["o3"]["u4"] = "OWNER"

\* C28: a login with an email that matches no user and a login with an
\* existing email but a wrong password end in the same outcome (UNAUTHORIZED,
\* the same message), no refresh token is stored and no audit entry is
\* written; a login with the correct password returns an access token and a
\* refresh token for that user.
C28_Login ==
    [][(AuthStep("login") /\ LoginSchemaOk(req'.body))
       => LET user == findUserByEmail(req'.body.email)
          IN  IF user = NULL \/ ~verifyPassword(req'.body.password, passwordHash[user])
              THEN /\ res' = UnauthorizedError("Invalid credentials")
                   /\ refreshTokens' = refreshTokens
                   /\ audit' = <<>>
              ELSE /\ res'.code = "OK"
                   /\ res'.data.accessToken.userId = user
                   /\ verifyAccessToken(res'.data.accessToken) = Nothing
                   /\ res'.data.refreshToken.userId = user
                   /\ verifyRefreshToken(res'.data.refreshToken) = Nothing]_vars

\* C28 witness: a login with the email of a stored user and a wrong password
\* has been answered.
C28_Witness ==
    /\ req # NoReq
    /\ req.op = "login"
    /\ ~req.limited
    /\ req.body.email = "a@x"
    /\ req.body.password = "password-2"
    /\ users["u1"] = "a@x"
    /\ passwordHash["u1"] = hashPassword("password-1")
    /\ res.code = "UNAUTHORIZED"

\* C29: after a logout request carrying refresh token t has completed, every
\* later refresh request with t is rejected as Unauthorized and issues no
\* access token; likewise a refresh with a token whose stored expiry has
\* passed, or with a token that has no stored record.
C29_Revocation ==
    [][(req = NoReq /\ req' # NoReq /\ req'.op = "refresh"
            /\ Has(req'.body, "refreshToken"))
       => LET t == req'.body.refreshToken
          IN  (\/ t \in loggedOut
               \/ StoredFor(t) = {}
               \/ \A row \in StoredFor(t) : row.expiresAt < now)
                => /\ res'.status = 401
                   /\ res'.code = "UNAUTHORIZED"
                   /\ res'.data = Nothing]_vars

\* C29 witness: a refresh token that was issued to its user and whose stored
\* row has not expired is presented after a logout that carried it, and is
\* rejected.
C29_Witness ==
    /\ req # NoReq
    /\ req.op = "refresh"
    /\ Has(req.body, "refreshToken")
    /\ req.body.refreshToken \in loggedOut
    /\ verifyRefreshToken(req.body.refreshToken) = Nothing
    /\ \E row \in StoredFor(req.body.refreshToken) : row.expiresAt >= now
    /\ res.code = "UNAUTHORIZED"

\* C34: a refresh request carrying a refresh token that signup or login
\* issued (a row stored for it), whose expiry has not passed and that no
\* logout has carried, succeeds and returns a new access token for the
\* token's user.
C34_RefreshSucceeds ==
    [][(req = NoReq /\ req' # NoReq /\ req'.op = "refresh"
            /\ Has(req'.body, "refreshToken"))
       => LET t == req'.body.refreshToken
          IN  (/\ verifyRefreshToken(t) = Nothing
               /\ \E row \in StoredFor(t) : row.userId = t.userId /\ row.expiresAt >= now
               /\ t \notin loggedOut)
                => /\ res'.code = "OK"
                   /\ res'.data.accessToken.userId = t.userId
                   /\ verifyAccessToken(res'.data.accessToken) = Nothing]_vars

----------------------------------------------------------------------------
(* Concurrent removals, checked under RemovalSpec *)

\* C31: under every interleaving of concurrent self-removal requests in an
\* organization that starts with two (or more) OWNER memberships, the
\* organization is left with at least one OWNER membership.
C31_OwnerSurvivesRaces == OwnerCount("o1") >= 1

====
